---- MODULE Spec2Model ----
(***************************************************************************)
(* Trading decision and risk enforcement core of tradebot-V1.0.            *)
(*                                                                         *)
(* Components modelled, each with its own specification:                   *)
(*   SpecBreaker   paid_trading_bot/risk/circuit_breaker.py                *)
(*   SpecValidator paid_trading_bot/risk/validators.py                     *)
(*   SpecSizer     paid_trading_bot/risk/position_sizer.py                 *)
(*   SpecRisk      risk/risk_engine.py (the RiskEngine object on its own)  *)
(*   Spec          main.py (AutonomousTradingBot and what it drives)       *)
(*                                                                         *)
(* Python floats are modelled as exact rationals <<num, den>>, den > 0,    *)
(* kept in lowest terms. The risk components compute on them exactly; the  *)
(* indicators and the strategy round each result (see Indicators), and so  *)
(* do the sizer and the validator of SpecSized.                            *)
(*                                                                         *)
(*   SpecAdvisory  paid_trading_bot/ai_advisory (orchestrator and agents)  *)
(*   SpecEntry     paid_trading_bot/strategy/entry_logic.py                *)
(*   SpecStrategy  paid_trading_bot/strategy/orchestrator.py, exit_logic.py*)
(*   SpecPositions state/position_manager.py (the PositionManager alone)   *)
(*   SpecSized     position_sizer.py and validators.py, on rounded floats  *)
(*   SpecFetch     paid_trading_bot/engine/orchestrator.py (the buffers)   *)
(***************************************************************************)
EXTENDS Integers, Sequences, FiniteSets, TLC

VARIABLES
    now,             \* datetime.utcnow(): [day, slot], one slot = 300 seconds
    is_tripped,      \* CircuitBreaker.is_tripped
    trip_reason,     \* CircuitBreaker.trip_reason
    trip_timestamp,  \* CircuitBreaker.trip_timestamp
    cb_last,         \* the last CircuitBreaker call: its arguments and return value
    v_in,            \* validate_trade_request: request, account_state, risk_limits
    v_out,           \* validate_trade_request: the ValidationResult returned
    s_in,            \* calculate_position_size: the arguments
    s_out,           \* calculate_position_size: the size returned
    config,          \* CONFIG.risk, as loaded from the environment
    risk_engine,     \* the RiskEngine: its limits, its RiskState and its trade_history
    re_last,         \* the last step of the RiskEngine run: the call and its return value
    day_losses,      \* losses registered on the current UTC day (for the properties)
    paper_trading,   \* CONFIG.paper_trading
    emergency_stop,  \* the EmergencyStop: its EmergencyStopState
    position_manager,\* the PositionManager: positions, closed_positions, max_positions
    trade_state,     \* the TradeState: trades and bot_state["last_run"]
    candles,         \* AutonomousTradingBot.candles, by the features the bot reads
    last_update,     \* AutonomousTradingBot.last_update
    tick,            \* what the last run_iteration did (for the properties)
    adv_in,          \* AIAdvisoryOrchestrator.analyze: the three agents' inputs
    adv_agents,      \* analyze: regime_output, governor_output, sentinel_output
    adv_out,         \* analyze: the AIAdvisoryResult returned
    e_in,            \* evaluate_entry: the arguments
    e_out,           \* evaluate_entry: the EntrySignal returned, or NoSignal
    open_positions,  \* the list of Positions the caller hands to on_candles
    hours,           \* datetime.utcnow() of the strategy loop, in hours
    strategy_result, \* the last call of on_candles: its price and its StrategyResult
    pm_last,         \* the last PositionManager call: its arguments and return value
    ohlcv_buffer,    \* the OHLCVBuffer: its maxlen and its deque of candles
    buffer_added,    \* every candle handed to the OHLCVBuffer, in order (for the properties)
    event_bus,       \* the EventBus: its handlers and the emission last made
    retry,           \* OrderManager.with_retries: the policy, the order function, the outcome
    triggered_at,    \* EmergencyStopState.triggered_at
    es_last,         \* the last EmergencyStop call: its arguments and return value
    running,         \* AutonomousTradingBot.running
    review,          \* the last parse of an AI response: the response and the verdict
    buffers          \* TradingOrchestrator: _buffer_1h and _buffer_5m

breakerVars == <<is_tripped, trip_reason, trip_timestamp, cb_last>>
validatorVars == <<v_in, v_out>>
sizerVars == <<s_in, s_out>>
riskVars == <<config, risk_engine, re_last, day_losses>>
botVars == <<paper_trading, emergency_stop, position_manager, trade_state, candles,
            last_update, tick>>
advisoryVars == <<adv_in, adv_agents, adv_out>>
entryVars == <<e_in, e_out>>
strategyVars == <<open_positions, hours, strategy_result>>
extraVars == <<review, buffers>>
serviceVars == <<ohlcv_buffer, buffer_added, event_bus, retry, triggered_at, es_last,
                 running, extraVars>>
componentVars == <<adv_in, adv_agents, adv_out, e_in, e_out, open_positions, hours,
                   strategy_result, pm_last, serviceVars>>
vars == <<now, is_tripped, trip_reason, trip_timestamp, cb_last, v_in, v_out, s_in, s_out,
          config, risk_engine, re_last, day_losses, paper_trading, emergency_stop,
          position_manager, trade_state, candles, last_update, tick,
          adv_in, adv_agents, adv_out, e_in, e_out, open_positions, hours,
          strategy_result, pm_last, ohlcv_buffer, buffer_added, event_bus, retry,
          triggered_at, es_last, running, review, buffers>>

(***************************************************************************)
(* Rationals                                                               *)
(***************************************************************************)
Abs(x) == IF x < 0 THEN -x ELSE x

RECURSIVE GCD(_, _)
GCD(a, b) == IF b = 0 THEN a ELSE GCD(b, a % b)

\* n/d in lowest terms with a positive denominator (d # 0)
Rat(n, d) ==
    LET g == GCD(Abs(n), Abs(d))
        s == IF d < 0 THEN -1 ELSE 1
    IN  <<(s * n) \div g, (s * d) \div g>>

R(n) == <<n, 1>>
RMul(a, b) == Rat(a[1] * b[1], a[2] * b[2])
RDiv(a, b) == Rat(a[1] * b[2], a[2] * b[1])
RAdd(a, b) == Rat(a[1] * b[2] + b[1] * a[2], a[2] * b[2])
RSub(a, b) == Rat(a[1] * b[2] - b[1] * a[2], a[2] * b[2])
RNeg(a) == <<-a[1], a[2]>>
RAbs(a) == <<Abs(a[1]), a[2]>>
RLt(a, b) == a[1] * b[2] < b[1] * a[2]
RLe(a, b) == a[1] * b[2] <= b[1] * a[2]
RGt(a, b) == RLt(b, a)
RGe(a, b) == RLe(b, a)
RMin(a, b) == IF RLe(a, b) THEN a ELSE b
RMax(a, b) == IF RGe(a, b) THEN a ELSE b

(***************************************************************************)
(* Clock                                                                   *)
(***************************************************************************)
MaxDay == 1       \* days 0..MaxDay are visited
MaxSlot == 1      \* only the first MaxSlot+1 slots of each day are visited

NoTime == [day |-> -1, slot |-> -1]
Times == [day : 0..MaxDay, slot : 0..MaxSlot]

\* the clock moves on by 300 seconds within the day
AdvanceSlot ==
    /\ now.slot < MaxSlot
    /\ now' = [now EXCEPT !.slot = now.slot + 1]

\* the clock moves on to the start of the next UTC day
AdvanceDay ==
    /\ now.day < MaxDay
    /\ now' = [day |-> now.day + 1, slot |-> 0]

(***************************************************************************)
(* CircuitBreaker                                                          *)
(***************************************************************************)
emergency_drawdown_percent == 10
max_api_failures == 5
balance_tolerance_percent == 1

NoReason == [code |-> "None", detail |-> "None"]

\* the values RiskSentinelAgent.run produces for its status
SentinelStatuses == {"HEALTHY", "WARNING", "CRITICAL"}

\* str.upper() on the strings that occur
Upper(s) ==
    CASE s = "healthy" -> "HEALTHY"
      [] s = "warning" -> "WARNING"
      [] s = "critical" -> "CRITICAL"
      [] s = "normal" -> "NORMAL"
      [] OTHER -> s

SystemStates ==
    [drawdown_percent : {9, 10},
     sentinel_status : SentinelStatuses,
     sentinel_reason : {"None", "slippage"},
     api_consecutive_failures : {4, 5},
     balance_discrepancy_percent : {1, 2}]

HealthyState ==
    [drawdown_percent |-> 9, sentinel_status |-> "HEALTHY", sentinel_reason |-> "None",
     api_consecutive_failures |-> 4, balance_discrepancy_percent |-> 0]

AdminTokens == {"", "token"}

\* the list trip_conditions built by check_and_trip
\* trip_conditions with a balance check that is not strict
trip_conditions_NonStrictBalance(state) ==
    << [condition |-> state.drawdown_percent >= emergency_drawdown_percent,
        reason |-> [code |-> "EMERGENCY_DRAWDOWN", detail |-> ToString(state.drawdown_percent)]],
       [condition |-> Upper(state.sentinel_status) = "CRITICAL",
        reason |-> [code |-> "SENTINEL_CRITICAL", detail |-> state.sentinel_reason]],
       [condition |-> state.api_consecutive_failures >= max_api_failures,
        reason |-> [code |-> "API_FAILURES", detail |-> ToString(state.api_consecutive_failures)]],
       [condition |-> state.balance_discrepancy_percent >= balance_tolerance_percent,
        reason |-> [code |-> "BALANCE_MISMATCH", detail |-> ToString(state.balance_discrepancy_percent)]] >>

trip_conditions(state) ==
    << [condition |-> state.drawdown_percent >= emergency_drawdown_percent,
        reason |-> [code |-> "EMERGENCY_DRAWDOWN", detail |-> ToString(state.drawdown_percent)]],
       [condition |-> Upper(state.sentinel_status) = "CRITICAL",
        reason |-> [code |-> "SENTINEL_CRITICAL", detail |-> state.sentinel_reason]],
       [condition |-> state.api_consecutive_failures >= max_api_failures,
        reason |-> [code |-> "API_FAILURES", detail |-> ToString(state.api_consecutive_failures)]],
       [condition |-> state.balance_discrepancy_percent > balance_tolerance_percent,
        reason |-> [code |-> "BALANCE_MISMATCH", detail |-> ToString(state.balance_discrepancy_percent)]] >>

\* the for loop of check_and_trip: the index of the first condition that holds, 0 if none
RECURSIVE FirstTrue(_, _)
FirstTrue(conds, i) ==
    IF i > Len(conds) THEN 0
    ELSE IF conds[i].condition THEN i
    ELSE FirstTrue(conds, i + 1)

\* CircuitBreaker._verify_admin_token: bool(admin_token)
\* a _verify_admin_token that accepts every token
AnyTokenAccepted(admin_token) == TRUE

_verify_admin_token(admin_token) == admin_token # ""

\* whether check_and_trip returns at once because the breaker is tripped
\* a check_and_trip without the early return
NoEarlyReturn(tripped) == FALSE

AlreadyTripped(tripped) == tripped

\* CircuitBreaker.check_and_trip(state), with _trip(reason) inlined
check_and_trip(state) ==
    LET conds == trip_conditions(state)
        i == FirstTrue(conds, 1)
    IN  /\ IF AlreadyTripped(is_tripped)
           THEN /\ UNCHANGED <<is_tripped, trip_reason, trip_timestamp>>
                /\ cb_last' = [op |-> "check_and_trip", state |-> state, token |-> "",
                               ret |-> TRUE, seq |-> 1 - cb_last.seq]
           ELSE IF i # 0
           THEN /\ is_tripped' = TRUE
                /\ trip_reason' = conds[i].reason
                /\ trip_timestamp' = now
                /\ cb_last' = [op |-> "check_and_trip", state |-> state, token |-> "",
                               ret |-> TRUE, seq |-> 1 - cb_last.seq]
           ELSE /\ UNCHANGED <<is_tripped, trip_reason, trip_timestamp>>
                /\ cb_last' = [op |-> "check_and_trip", state |-> state, token |-> "",
                               ret |-> FALSE, seq |-> 1 - cb_last.seq]
        /\ UNCHANGED now

\* CircuitBreaker.manual_reset(admin_token=...)
manual_reset(admin_token) ==
    /\ IF ~_verify_admin_token(admin_token)
       THEN /\ UNCHANGED <<is_tripped, trip_reason, trip_timestamp>>
            /\ cb_last' = [op |-> "manual_reset", state |-> HealthyState, token |-> admin_token,
                           ret |-> FALSE, seq |-> 1 - cb_last.seq]
       ELSE /\ is_tripped' = FALSE
            /\ trip_reason' = NoReason
            /\ trip_timestamp' = NoTime
            /\ cb_last' = [op |-> "manual_reset", state |-> HealthyState, token |-> admin_token,
                           ret |-> TRUE, seq |-> 1 - cb_last.seq]
    /\ UNCHANGED now

\* CircuitBreaker.__init__
BreakerInit ==
    /\ is_tripped = FALSE
    /\ trip_reason = NoReason
    /\ trip_timestamp = NoTime
    /\ cb_last = [op |-> "init", state |-> HealthyState, token |-> "", ret |-> FALSE, seq |-> 0]

CheckAndTrip == \E state \in SystemStates : check_and_trip(state)
ManualReset == \E admin_token \in AdminTokens : manual_reset(admin_token)
BreakerTick == (AdvanceSlot \/ AdvanceDay) /\ UNCHANGED breakerVars

\* a CircuitBreaker call was made in this step
BreakerCalled == cb_last'.seq # cb_last.seq

\* the trip predicates of a SystemState, as the specification lists them
DrawdownHit(s) == s.drawdown_percent >= emergency_drawdown_percent
SentinelHit(s) == s.sentinel_status = "CRITICAL"
ApiHit(s) == s.api_consecutive_failures >= max_api_failures
BalanceHit(s) == s.balance_discrepancy_percent > balance_tolerance_percent
AnyHit(s) == DrawdownHit(s) \/ SentinelHit(s) \/ ApiHit(s) \/ BalanceHit(s)

\* C1: once is_tripped is true it stays true over check_and_trip calls (whatever the
\* SystemState) and over manual_reset calls with an empty token, which return false
\* and change nothing; it becomes false only by a manual_reset with a non-empty token,
\* which returns true and clears is_tripped, trip_reason and trip_timestamp.
C1_Latch ==
    [][ /\ (is_tripped /\ BreakerCalled /\ cb_last'.op = "check_and_trip") => is_tripped'
        /\ (BreakerCalled /\ cb_last'.op = "manual_reset" /\ cb_last'.token = "")
              => (~cb_last'.ret /\ UNCHANGED <<is_tripped, trip_reason, trip_timestamp>>)
        /\ (is_tripped /\ ~is_tripped')
              => /\ BreakerCalled
                 /\ cb_last'.op = "manual_reset"
                 /\ cb_last'.token # ""
        /\ (BreakerCalled /\ cb_last'.op = "manual_reset" /\ cb_last'.token # "")
              => /\ cb_last'.ret
                 /\ ~is_tripped'
                 /\ trip_reason' = NoReason
                 /\ trip_timestamp' = NoTime
      ]_vars

\* a tripped breaker that has just been checked against a fully healthy state
C1_Witness ==
    /\ is_tripped
    /\ cb_last.op = "check_and_trip"
    /\ ~AnyHit(cb_last.state)

\* C9: on an untripped breaker check_and_trip returns true and trips iff one of the
\* four predicates holds (the balance one strictly); otherwise it returns false and
\* leaves is_tripped, trip_reason and trip_timestamp unset; the recorded reason carries
\* the code of the first predicate that holds, in the order of the table.
C9_TripPredicates ==
    [][ (~is_tripped /\ BreakerCalled /\ cb_last'.op = "check_and_trip") =>
          LET s == cb_last'.state IN
          /\ cb_last'.ret <=> AnyHit(s)
          /\ is_tripped' <=> AnyHit(s)
          /\ ~AnyHit(s) => (trip_reason' = NoReason /\ trip_timestamp' = NoTime
                             /\ trip_reason = NoReason /\ trip_timestamp = NoTime)
          /\ AnyHit(s) =>
                /\ trip_timestamp' = now
                /\ trip_reason'.code =
                      IF DrawdownHit(s) THEN "EMERGENCY_DRAWDOWN"
                      ELSE IF SentinelHit(s) THEN "SENTINEL_CRITICAL"
                      ELSE IF ApiHit(s) THEN "API_FAILURES"
                      ELSE "BALANCE_MISMATCH"
      ]_vars

\* tripped by a balance discrepancy alone, and by several predicates at once
C9_Witness ==
    /\ is_tripped
    /\ cb_last.op = "check_and_trip"
    /\ trip_reason.code = "BALANCE_MISMATCH"
    /\ cb_last.state.balance_discrepancy_percent = balance_tolerance_percent + 1
    /\ trip_timestamp = now

\* C10: check_and_trip on an already tripped breaker returns true and leaves
\* trip_reason and trip_timestamp as the first trip set them, whatever the new state.
C10_Idempotent ==
    [][ (is_tripped /\ BreakerCalled /\ cb_last'.op = "check_and_trip") =>
          /\ cb_last'.ret
          /\ UNCHANGED <<is_tripped, trip_reason, trip_timestamp>>
      ]_vars

\* a later call, at a later time, whose state satisfies a different predicate
C10_Witness ==
    /\ is_tripped
    /\ cb_last.op = "check_and_trip"
    /\ cb_last.ret
    /\ trip_timestamp # now
    /\ AnyHit(cb_last.state)
    /\ ~DrawdownHit(cb_last.state)
    /\ trip_reason.code = "EMERGENCY_DRAWDOWN"

(***************************************************************************)
(* HardRiskLimits, validate_trade_request                                  *)
(***************************************************************************)
\* HardRiskLimits(): the defaults of the dataclass
DefaultLimits ==
    [max_risk_per_trade_percent |-> R(1),
     daily_loss_cap_percent |-> 3,
     max_drawdown_percent |-> 10,
     max_consecutive_losses |-> 5,
     max_open_positions |-> 2,
     max_trades_per_day |-> 6]

\* calculate_trade_risk_percent(position_size, entry_price, stop_loss, account_balance)
calculate_trade_risk_percent(position_size, entry_price, stop_loss, account_balance) ==
    IF account_balance <= 0 THEN R(0)
    ELSE LET stop_distance == Abs(entry_price - stop_loss) IN
         IF stop_distance <= 0 THEN R(0)
         ELSE LET risk_amount == position_size * stop_distance
              IN  RMul(Rat(risk_amount, account_balance), R(100))

Rejected(reason) == [approved |-> FALSE, reason |-> reason]

\* validate_trade_request(request, account_state, risk_limits)
\* a validate_trade_request that checks the open positions before the drawdown
validate_trade_request_PositionsFirst(request, account_state, risk_limits) ==
    IF account_state.daily_pnl_percent <= -risk_limits.daily_loss_cap_percent
    THEN Rejected("DAILY_LOSS_CAP_HIT")
    ELSE IF account_state.open_positions >= risk_limits.max_open_positions
    THEN Rejected("MAX_POSITIONS_REACHED")
    ELSE IF account_state.current_drawdown_percent >= risk_limits.max_drawdown_percent
    THEN Rejected("MAX_DRAWDOWN_HIT")
    ELSE IF account_state.consecutive_losses >= risk_limits.max_consecutive_losses
    THEN Rejected("MAX_CONSECUTIVE_LOSSES_HIT")
    ELSE IF account_state.trades_today >= risk_limits.max_trades_per_day
    THEN Rejected("MAX_DAILY_TRADES_REACHED")
    ELSE IF RGt(calculate_trade_risk_percent(request.position_size, request.entry_price,
                                             request.stop_loss, account_state.balance),
                risk_limits.max_risk_per_trade_percent)
    THEN Rejected("RISK_PER_TRADE_EXCEEDED")
    ELSE [approved |-> TRUE, reason |-> "ALL_CHECKS_PASSED"]

validate_trade_request(request, account_state, risk_limits) ==
    IF account_state.daily_pnl_percent <= -risk_limits.daily_loss_cap_percent
    THEN Rejected("DAILY_LOSS_CAP_HIT")
    ELSE IF account_state.current_drawdown_percent >= risk_limits.max_drawdown_percent
    THEN Rejected("MAX_DRAWDOWN_HIT")
    ELSE IF account_state.consecutive_losses >= risk_limits.max_consecutive_losses
    THEN Rejected("MAX_CONSECUTIVE_LOSSES_HIT")
    ELSE IF account_state.open_positions >= risk_limits.max_open_positions
    THEN Rejected("MAX_POSITIONS_REACHED")
    ELSE IF account_state.trades_today >= risk_limits.max_trades_per_day
    THEN Rejected("MAX_DAILY_TRADES_REACHED")
    ELSE LET trade_risk_percent ==
                 calculate_trade_risk_percent(request.position_size, request.entry_price,
                                              request.stop_loss, account_state.balance)
         IN  IF RGt(trade_risk_percent, risk_limits.max_risk_per_trade_percent)
             THEN Rejected("RISK_PER_TRADE_EXCEEDED")
             ELSE [approved |-> TRUE, reason |-> "ALL_CHECKS_PASSED"]

TradeRequests ==
    [entry_price : {100}, stop_loss : {99, 100}, position_size : {10, 11}]

AccountStates ==
    [balance : {-1000, 0, 1000},
     daily_pnl_percent : {-3, -2},
     current_drawdown_percent : {9, 10},
     consecutive_losses : {4, 5},
     open_positions : {1, 2},
     trades_today : {5, 6}]

LimitsSet ==
    {[DefaultLimits EXCEPT !.max_risk_per_trade_percent = m] : m \in {Rat(1, 2), R(1)}}

ValidatorInputs == [request : TradeRequests, account_state : AccountStates, risk_limits : LimitsSet]

NoResult == [approved |-> FALSE, reason |-> "None"]

ValidatorIdle ==
    /\ v_in = [request |-> [entry_price |-> 100, stop_loss |-> 99, position_size |-> 10],
               account_state |-> [balance |-> 1000, daily_pnl_percent |-> -2,
                                  current_drawdown_percent |-> 9, consecutive_losses |-> 4,
                                  open_positions |-> 1, trades_today |-> 5],
               risk_limits |-> DefaultLimits]
    /\ v_out = NoResult

\* a caller applies the validator to its inputs
Validate ==
    /\ v_out = NoResult
    /\ v_out' = validate_trade_request(v_in.request, v_in.account_state, v_in.risk_limits)
    /\ UNCHANGED v_in

(***************************************************************************)
(* calculate_position_size                                                 *)
(***************************************************************************)
\* hard_limits=None
NoLimits == [none |-> TRUE]

\* min(max(ai_risk_multiplier, 0.0), 1.0)
\* a clamp of the multiplier without the cap at 1
ClampMultiplier_NoUpperCap(ai_risk_multiplier) == RMax(ai_risk_multiplier, R(0))

ClampMultiplier(ai_risk_multiplier) == RMin(RMax(ai_risk_multiplier, R(0)), R(1))

\* min(risk_percent, limits.max_risk_per_trade_percent), then max(.., 0.0)
\* a requested risk that is not capped at the hard limit
CapRiskPercent_NoCap(risk_percent, limits) == RMax(risk_percent, R(0))

CapRiskPercent(risk_percent, limits) ==
    RMax(RMin(risk_percent, limits.max_risk_per_trade_percent), R(0))

\* calculate_position_size(account_balance, risk_percent, entry_price, stop_loss_price,
\*                         ai_risk_multiplier, hard_limits)
calculate_position_size(account_balance, risk_percent, entry_price, stop_loss_price, ai_risk_multiplier, hard_limits) ==
    LET limits == IF hard_limits = NoLimits THEN DefaultLimits ELSE hard_limits IN
    IF account_balance <= 0 THEN R(0)
    ELSE LET risk_percent_capped == CapRiskPercent(risk_percent, limits)
             effective_risk_percent == RMul(risk_percent_capped, ClampMultiplier(ai_risk_multiplier))
         IN  IF RLe(effective_risk_percent, R(0)) THEN R(0)
             ELSE LET stop_distance == Abs(entry_price - stop_loss_price) IN
                  IF stop_distance <= 0 THEN R(0)
                  ELSE LET risk_amount == RMul(R(account_balance), RDiv(effective_risk_percent, R(100)))
                           position_size == RDiv(risk_amount, R(stop_distance))
                       IN  IF RLt(position_size, R(0)) THEN R(0) ELSE position_size

SizerInputs ==
    [account_balance : {-1000, 0, 1000},
     risk_percent : {R(-1), R(0), Rat(1, 2), R(1), R(5)},
     entry_price : {100},
     stop_loss_price : {98, 100, 101},
     ai_risk_multiplier : {R(-1), R(0), Rat(1, 2), R(1), R(2)},
     hard_limits : LimitsSet \cup {NoLimits}]

NoSize == <<-1, 1>>

SizerIdle ==
    /\ s_in = [account_balance |-> 1000, risk_percent |-> R(1), entry_price |-> 100,
               stop_loss_price |-> 98, ai_risk_multiplier |-> R(1), hard_limits |-> DefaultLimits]
    /\ s_out = NoSize

SizeOf(in) ==
    calculate_position_size(in.account_balance, in.risk_percent, in.entry_price,
                            in.stop_loss_price, in.ai_risk_multiplier, in.hard_limits)

\* a caller applies the sizer to its inputs
Size ==
    /\ s_out = NoSize
    /\ s_out' = SizeOf(s_in)
    /\ UNCHANGED s_in

(***************************************************************************)
(* RiskConfig (config/settings.py) and RiskEngine (risk/risk_engine.py)    *)
(***************************************************************************)
\* config.constants, imported by risk_engine.py
ABSOLUTE_MAX_RISK_PER_TRADE == 1
ABSOLUTE_MAX_DAILY_LOSS == 3
ABSOLUTE_MAX_DRAWDOWN == 10

SecondsPerSlot == 300
SecondsPerDay == 86400
SlotsPerDay == SecondsPerDay \div SecondsPerSlot

\* (t2 - t1).total_seconds()
total_seconds(t2, t1) ==
    ((t2.day - t1.day) * SlotsPerDay + (t2.slot - t1.slot)) * SecondsPerSlot

\* RiskConfig as load_config() reads it from the environment. MAX_CONSECUTIVE_LOSSES
\* and MAX_TRADES_PER_DAY are set below their defaults (5 and 6) so that the limits
\* are reached within the bounds.
EnvRiskConfigs ==
    { [max_risk_per_trade_percent |-> R(1),
       max_daily_loss_percent |-> R(3),
       max_drawdown_percent |-> R(10),
       max_consecutive_losses |-> 2,
       max_open_positions |-> 2,
       max_trades_per_day |-> 2,
       min_time_between_trades_seconds |-> 300],
      [max_risk_per_trade_percent |-> R(2),
       max_daily_loss_percent |-> R(5),
       max_drawdown_percent |-> R(20),
       max_consecutive_losses |-> 2,
       max_open_positions |-> 3,
       max_trades_per_day |-> 2,
       min_time_between_trades_seconds |-> 300] }

NoPnl == <<0, 0>>   \* pnl_percent=None

\* RiskState()
RiskState0 ==
    [daily_loss |-> R(0),
     daily_loss_percent |-> R(0),
     total_trades_today |-> 0,
     consecutive_losses |-> 0,
     max_drawdown |-> R(0),
     peak_balance |-> R(0),
     last_trade_time |-> NoTime,
     emergency_stop |-> FALSE,
     emergency_reason |-> "None"]

\* RiskEngine._enforce_absolute_limits
_enforce_absolute_limits(self) ==
    LET a == IF RGt(self.max_risk_pct, R(ABSOLUTE_MAX_RISK_PER_TRADE))
             THEN [self EXCEPT !.max_risk_pct = R(ABSOLUTE_MAX_RISK_PER_TRADE)] ELSE self
        b == IF RGt(a.daily_loss_limit, R(ABSOLUTE_MAX_DAILY_LOSS))
             THEN [a EXCEPT !.daily_loss_limit = R(ABSOLUTE_MAX_DAILY_LOSS)] ELSE a
        c == IF RGt(b.max_drawdown_limit, R(ABSOLUTE_MAX_DRAWDOWN))
             THEN [b EXCEPT !.max_drawdown_limit = R(ABSOLUTE_MAX_DRAWDOWN)] ELSE b
    IN  c

\* RiskEngine.__init__(), called without arguments by AutonomousTradingBot
RiskEngine__init__(risk_config) ==
    _enforce_absolute_limits(
        [max_risk_pct |-> risk_config.max_risk_per_trade_percent,
         daily_loss_limit |-> risk_config.max_daily_loss_percent,
         max_drawdown_limit |-> risk_config.max_drawdown_percent,
         max_consecutive_losses |-> risk_config.max_consecutive_losses,
         max_trades_per_day |-> risk_config.max_trades_per_day,
         min_time_between_trades |-> risk_config.min_time_between_trades_seconds,
         state |-> RiskState0,
         trade_history |-> <<>>])

\* RiskEngine._trigger_emergency(reason)
_trigger_emergency(self, reason) ==
    IF ~self.state.emergency_stop
    THEN [self EXCEPT !.state.emergency_stop = TRUE, !.state.emergency_reason = reason]
    ELSE self

\* RiskEngine._reset_daily_if_needed(), called at time t
_reset_daily_if_needed(self, t) ==
    IF self.state.last_trade_time # NoTime /\ t.day # self.state.last_trade_time.day
    THEN [self EXCEPT !.state.total_trades_today = 0,
                      !.state.daily_loss = R(0),
                      !.state.daily_loss_percent = R(0)]
    ELSE self

\* RiskEngine._check_time_between_trades(), called at time t
_check_time_between_trades(self, t) ==
    IF self.state.last_trade_time = NoTime THEN TRUE
    ELSE total_seconds(t, self.state.last_trade_time) >= self.min_time_between_trades

\* RiskEngine.can_open_trade(account_balance), called at time t: [ret, self]
can_open_trade(self, t) ==
    IF self.state.emergency_stop THEN [ret |-> FALSE, self |-> self]
    ELSE IF RGe(self.state.daily_loss_percent, self.daily_loss_limit) THEN [ret |-> FALSE, self |-> self]
    ELSE IF RGe(self.state.max_drawdown, self.max_drawdown_limit)
    THEN [ret |-> FALSE, self |-> _trigger_emergency(self, "MAX_DRAWDOWN_EXCEEDED")]
    ELSE IF self.state.consecutive_losses >= self.max_consecutive_losses
    THEN [ret |-> FALSE, self |-> self]
    ELSE LET r == _reset_daily_if_needed(self, t) IN
         IF r.state.total_trades_today >= r.max_trades_per_day THEN [ret |-> FALSE, self |-> r]
         ELSE IF ~_check_time_between_trades(r, t) THEN [ret |-> FALSE, self |-> r]
         ELSE [ret |-> TRUE, self |-> r]

\* RiskEngine.register_trade_open(position_value, entry_price), called at time t
register_trade_open(self, t) ==
    LET r == _reset_daily_if_needed(self, t)
    IN  [r EXCEPT !.state.total_trades_today = r.state.total_trades_today + 1,
                  !.state.last_trade_time = t]

\* RiskEngine._update_daily_loss(pnl_percent)
_update_daily_loss(self, pnl_percent) ==
    IF RLt(pnl_percent, R(0))
    THEN [self EXCEPT !.state.daily_loss = RAdd(self.state.daily_loss, RAbs(pnl_percent))]
    ELSE self

\* RiskEngine.register_trade_close(exit_price, amount, pnl_percent); the "time" string
\* of a trade_history entry, which nothing reads, is left out
register_trade_close(self, pnl_percent) ==
    LET a == IF pnl_percent # NoPnl
             THEN LET u == _update_daily_loss(self, pnl_percent) IN
                  IF RLt(pnl_percent, R(0))
                  THEN [u EXCEPT !.state.consecutive_losses = u.state.consecutive_losses + 1]
                  ELSE [u EXCEPT !.state.consecutive_losses = 0]
             ELSE self
    IN  [a EXCEPT !.trade_history =
            Append(a.trade_history,
                   [pnl |-> pnl_percent,
                    consecutive_losses |-> a.state.consecutive_losses])]

\* RiskEngine.update_balance(current_balance, initial_balance)
update_balance(self, current_balance, initial_balance) ==
    LET a == IF RGt(current_balance, self.state.peak_balance)
             THEN [self EXCEPT !.state.peak_balance = current_balance] ELSE self
        b == IF RGt(a.state.peak_balance, R(0))
             THEN LET drawdown == RMul(RDiv(RSub(a.state.peak_balance, current_balance),
                                            a.state.peak_balance), R(100))
                      d == [a EXCEPT !.state.max_drawdown = RMax(a.state.max_drawdown, drawdown)]
                  IN  IF RGt(initial_balance, R(0))
                      THEN LET daily_pnl == RMul(RDiv(RSub(current_balance, initial_balance),
                                                      initial_balance), R(100))
                           IN  IF RLt(daily_pnl, R(0))
                               THEN [d EXCEPT !.state.daily_loss_percent = RAbs(daily_pnl)]
                               ELSE d
                      ELSE d
             ELSE a
        c == IF RGe(b.state.max_drawdown, b.max_drawdown_limit)
             THEN _trigger_emergency(b, "MAX_DRAWDOWN_BREACH") ELSE b
    IN  IF RGe(c.state.daily_loss_percent, R(ABSOLUTE_MAX_DAILY_LOSS))
        THEN _trigger_emergency(c, "DAILY_LOSS_ABSOLUTE_LIMIT") ELSE c

\* RiskEngine.manual_reset(admin_password): [ret, self]
RiskEngine_manual_reset(self, admin_password) ==
    IF admin_password # "EMERGENCY_RESET" THEN [ret |-> FALSE, self |-> self]
    ELSE [ret |-> TRUE,
          self |-> [self EXCEPT !.state.emergency_stop = FALSE,
                                !.state.emergency_reason = "None",
                                !.state.max_drawdown = R(0),
                                !.state.daily_loss = R(0),
                                !.state.daily_loss_percent = R(0),
                                !.state.consecutive_losses = 0]]

\* the RiskEngine object driven through its methods
MaxOpensPerDay == 2   \* register_trade_open calls modelled per day
MaxHistory == 1       \* register_trade_close calls modelled

ClosePnls == {R(-4), R(0), R(1), NoPnl}
BalanceUpdates == {<<R(10000), R(10000)>>, <<R(9000), R(10000)>>}
AdminPasswords == {"EMERGENCY_RESET", "guess"}

\* the losses registered through register_trade_close on one UTC day since the last
\* successful manual reset (kept for the properties; the program does not read it)
NoLosses == [day |-> 0, sum |-> R(0)]
LossesAfterClose(l, pnl_percent, t) ==
    LET loss == IF pnl_percent # NoPnl /\ RLt(pnl_percent, R(0)) THEN RAbs(pnl_percent) ELSE R(0)
    IN  IF l.day = t.day THEN [l EXCEPT !.sum = RAdd(l.sum, loss)]
        ELSE [day |-> t.day, sum |-> loss]

ReCall(op, ret) == [op |-> op, ret |-> ret]

CanOpenTrade ==
    LET r == can_open_trade(risk_engine, now)
    IN  /\ risk_engine' = r.self
        /\ re_last' = ReCall("can_open_trade", r.ret)
        /\ UNCHANGED <<now, config, day_losses>>

RegisterTradeOpen ==
    /\ _reset_daily_if_needed(risk_engine, now).state.total_trades_today < MaxOpensPerDay
    /\ risk_engine' = register_trade_open(risk_engine, now)
    /\ re_last' = ReCall("register_trade_open", TRUE)
    /\ UNCHANGED <<now, config, day_losses>>

RegisterTradeClose ==
    /\ Len(risk_engine.trade_history) < MaxHistory
    /\ \E pnl_percent \in ClosePnls :
          /\ risk_engine' = register_trade_close(risk_engine, pnl_percent)
          /\ day_losses' = LossesAfterClose(day_losses, pnl_percent, now)
    /\ re_last' = ReCall("register_trade_close", TRUE)
    /\ UNCHANGED <<now, config>>

UpdateBalance ==
    /\ \E b \in BalanceUpdates : risk_engine' = update_balance(risk_engine, b[1], b[2])
    /\ re_last' = ReCall("update_balance", TRUE)
    /\ UNCHANGED <<now, config, day_losses>>

RiskManualReset ==
    \E admin_password \in AdminPasswords :
        LET r == RiskEngine_manual_reset(risk_engine, admin_password)
        IN  /\ risk_engine' = r.self
            /\ re_last' = ReCall("manual_reset", r.ret)
            /\ day_losses' = IF r.ret THEN [day |-> now.day, sum |-> R(0)] ELSE day_losses
            /\ UNCHANGED <<now, config>>

RiskTick ==
    /\ AdvanceSlot \/ AdvanceDay
    /\ re_last' = ReCall("clock", FALSE)
    /\ UNCHANGED <<config, risk_engine, day_losses>>

RiskIdle ==
    /\ config = CHOOSE c \in EnvRiskConfigs : c.max_open_positions = 2
    /\ risk_engine = RiskEngine__init__(config)
    /\ re_last = [op |-> "init", ret |-> FALSE]
    /\ day_losses = NoLosses

\* the RiskEngine over several UTC days, under a daily loss limit below the absolute
\* cap: MAX_DAILY_LOSS=2 in the environment, or the defaults of the model
MaxCloses == 2        \* register_trade_close calls modelled over the days

DayRiskConfigs ==
    { c \in EnvRiskConfigs : c.max_open_positions = 2 } \cup
    { [max_risk_per_trade_percent |-> R(1),
       max_daily_loss_percent |-> R(2),
       max_drawdown_percent |-> R(10),
       max_consecutive_losses |-> 2,
       max_open_positions |-> 2,
       max_trades_per_day |-> 2,
       min_time_between_trades_seconds |-> 300] }

\* register_trade_close with a loss of 1% or with a pnl_percent of 0
DayClose ==
    /\ Len(risk_engine.trade_history) < MaxCloses
    /\ \E pnl_percent \in {R(-1), R(0)} :
          /\ risk_engine' = register_trade_close(risk_engine, pnl_percent)
          /\ day_losses' = LossesAfterClose(day_losses, pnl_percent, now)
    /\ re_last' = ReCall("register_trade_close", TRUE)
    /\ UNCHANGED <<now, config>>

\* update_balance at a balance 2.5% below the initial balance
DayBalance ==
    /\ risk_engine' = update_balance(risk_engine, R(9750), R(10000))
    /\ re_last' = ReCall("update_balance", TRUE)
    /\ UNCHANGED <<now, config, day_losses>>

\* midnight UTC passes
DayPasses ==
    /\ AdvanceDay
    /\ re_last' = ReCall("clock", FALSE)
    /\ UNCHANGED <<config, risk_engine, day_losses>>

(***************************************************************************)
(* PositionManager (state/position_manager.py)                             *)
(***************************************************************************)
symbol == "BTC/USDT"        \* CONFIG.exchange.default_symbol
max_positions == 2          \* PositionManager.max_positions

NoPrice == <<0, 0>>         \* a price that is None
NoPosition == [id |-> 0]    \* None where a Position is expected

\* PositionManager()
PositionManager__init__ ==
    [positions |-> <<>>, closed_positions |-> <<>>, max_positions |-> max_positions]

\* a status test that takes every position for an open one
IsOpen_Always(p) == p.status \in {"open", "closed"}

\* position.status == POSITION_OPEN
IsOpen(p) == p.status = "open"

\* PositionManager.get_open_positions(), in the insertion order of the dict
get_open_positions(self) == SelectSeq(self.positions, IsOpen)

\* PositionManager.get_position_count()
get_position_count(self) == Len(get_open_positions(self))

\* PositionManager.has_open_position(symbol)
has_open_position(self, sym) ==
    \E i \in 1..Len(self.positions) :
        self.positions[i].symbol = sym /\ IsOpen(self.positions[i])

\* an open_position that refuses every position
open_position_Refuses(self, sym, side, entry_price, amount, stop_loss, take_profit, t) ==
    [ret |-> NoPosition, self |-> self]

\* an open_position that does not look at max_positions
open_position_NoCap(self, sym, side, entry_price, amount, stop_loss, take_profit, t) ==
    [ret |-> [id |-> Len(self.positions) + 1],
     self |-> [self EXCEPT !.positions =
                  Append(self.positions,
                         [id |-> Len(self.positions) + 1, symbol |-> sym, side |-> side,
                          entry_price |-> entry_price, amount |-> amount,
                          stop_loss |-> stop_loss, take_profit |-> take_profit,
                          entry_time |-> t, status |-> "open",
                          highest_price |-> entry_price, lowest_price |-> entry_price,
                          exit_price |-> NoPrice, exit_time |-> NoTime,
                          exit_reason |-> "None", pnl_percent |-> NoPnl])]]

\* PositionManager.open_position(...), called at time t: [ret, self]. The id, a uuid
\* prefix in the program, is the index of the position in self.positions.
open_position(self, sym, side, entry_price, amount, stop_loss, take_profit, t) ==
    IF get_position_count(self) >= self.max_positions
    THEN [ret |-> NoPosition, self |-> self]
    ELSE LET position == [id |-> Len(self.positions) + 1,
                          symbol |-> sym,
                          side |-> side,
                          entry_price |-> entry_price,
                          amount |-> amount,
                          stop_loss |-> stop_loss,
                          take_profit |-> take_profit,
                          entry_time |-> t,
                          status |-> "open",
                          highest_price |-> entry_price,
                          lowest_price |-> entry_price,
                          exit_price |-> NoPrice,
                          exit_time |-> NoTime,
                          exit_reason |-> "None",
                          pnl_percent |-> NoPnl]
         IN  [ret |-> position,
              self |-> [self EXCEPT !.positions = Append(self.positions, position)]]

\* PositionManager.close_position(position_id, exit_price, exit_reason), called at
\* time t: [ret, self]; closed_positions holds the ids of the closed Position objects
close_position(self, position_id, exit_price, exit_reason, t) ==
    IF position_id \notin 1..Len(self.positions) THEN [ret |-> NoPosition, self |-> self]
    ELSE IF ~IsOpen(self.positions[position_id]) THEN [ret |-> NoPosition, self |-> self]
    ELSE LET p == self.positions[position_id]
             position ==
                 [p EXCEPT !.status = "closed",
                           !.exit_price = exit_price,
                           !.exit_time = t,
                           !.exit_reason = exit_reason,
                           !.pnl_percent =
                               IF p.side = "long"
                               THEN RMul(RDiv(RSub(exit_price, p.entry_price),
                                              p.entry_price), R(100))
                               ELSE RMul(RDiv(RSub(p.entry_price, exit_price),
                                              p.entry_price), R(100))]
         IN  [ret |-> position,
              self |-> [self EXCEPT !.positions[position_id] = position,
                                    !.closed_positions = Append(self.closed_positions,
                                                                position_id)]]

\* an update that overwrites both extremes with the current price
update_position_price_Overwrite(self, position_id, current_price) ==
    IF position_id \notin 1..Len(self.positions) THEN self
    ELSE IF ~IsOpen(self.positions[position_id]) THEN self
    ELSE [self EXCEPT !.positions[position_id].highest_price = current_price,
                      !.positions[position_id].lowest_price = current_price]

\* PositionManager.update_position_price(position_id, current_price)
update_position_price(self, position_id, current_price) ==
    IF position_id \notin 1..Len(self.positions) THEN self
    ELSE IF ~IsOpen(self.positions[position_id]) THEN self
    ELSE LET p == self.positions[position_id]
             a == IF RGt(current_price, p.highest_price)
                  THEN [p EXCEPT !.highest_price = current_price] ELSE p
             b == IF RLt(current_price, a.lowest_price)
                  THEN [a EXCEPT !.lowest_price = current_price] ELSE a
         IN  [self EXCEPT !.positions[position_id] = b]

(***************************************************************************)
(* Exit logic (strategy/exits.py), for the long positions the bot opens    *)
(***************************************************************************)
\* (current_price - entry_price) / entry_price * 100
ProfitPercent(position, current_price) ==
    RMul(RDiv(RSub(current_price, position.entry_price), position.entry_price), R(100))

\* check_exit_conditions(position, current_price, current_time, candles):
\* [should_exit, reason, pnl_percent, position]; position is the dict the call may
\* have written highest_price into
check_exit_conditions(position, current_price, cndls) ==
    LET pnl_percent == ProfitPercent(position, current_price)
        hit(reason, p) == [should_exit |-> TRUE, reason |-> reason,
                           pnl_percent |-> pnl_percent, position |-> p]
    IN  IF RLe(current_price, position.stop_loss) THEN hit("STOP_LOSS", position)
        ELSE IF RGe(current_price, position.take_profit) THEN hit("TAKE_PROFIT", position)
        ELSE LET p == IF RGt(current_price, position.highest_price)
                      THEN [position EXCEPT !.highest_price = current_price]
                      ELSE position
             IN  IF /\ RGt(pnl_percent, R(2))
                    /\ cndls.len >= 14
                    /\ RLe(current_price, RSub(p.highest_price, cndls.atr))
                 THEN hit("TRAILING_STOP", p)
                 ELSE [should_exit |-> FALSE, reason |-> "HOLD",
                       pnl_percent |-> pnl_percent, position |-> p]

\* update_trailing_stop(position, current_price, candles): [ret, position], ret the
\* new trailing stop or NoPrice for None
update_trailing_stop(position, current_price, cndls) ==
    LET p == IF RGt(current_price, position.highest_price)
             THEN [position EXCEPT !.highest_price = current_price]
             ELSE position
    IN  IF RLt(ProfitPercent(position, current_price), R(2))
        THEN [ret |-> NoPrice, position |-> p]
        ELSE IF cndls.len >= 14
        THEN [ret |-> RSub(p.highest_price, cndls.atr), position |-> p]
        ELSE [ret |-> RMul(p.highest_price, <<49, 50>>), position |-> p]

(***************************************************************************)
(* AI layer (ai/ai_client.py, ai/regime_gatekeeper.py,                     *)
(* ai/strategy_governor.py, ai/risk_sentinel.py)                           *)
(***************************************************************************)
regime_confidence_threshold == <<3, 5>>   \* CONFIG.ai.regime_confidence_threshold
AIDisabledReasoning == "AI disabled - defaulting to allow"

\* AIAnalysisResult values GeminiClient.analyze can return: the result of a disabled
\* client, sanitised model answers, and the fail-safe result of a failed call
AIResults ==
    { [regime |-> "TRENDING", confidence |-> R(1), recommendation |-> "ALLOW",
       reasoning |-> AIDisabledReasoning, risk_level |-> "MEDIUM"],
      [regime |-> "RANGING", confidence |-> <<9, 10>>, recommendation |-> "ALLOW",
       reasoning |-> "model", risk_level |-> "LOW"],
      [regime |-> "UNKNOWN", confidence |-> R(0), recommendation |-> "HALT",
       reasoning |-> "AI analysis error", risk_level |-> "HIGH"],
      [regime |-> "RANGING", confidence |-> <<1, 2>>, recommendation |-> "REDUCE_RISK",
       reasoning |-> "model", risk_level |-> "MEDIUM"] }

\* allow_trading(ai_output)
allow_trading(ai_output) ==
    IF ai_output.confidence = R(1) /\ ai_output.reasoning = AIDisabledReasoning THEN TRUE
    ELSE IF ai_output.recommendation = "HALT" THEN FALSE
    ELSE IF ai_output.recommendation = "REDUCE_RISK" THEN TRUE
    ELSE IF ai_output.regime # "TRENDING" THEN FALSE
    ELSE IF RLt(ai_output.confidence, regime_confidence_threshold) THEN FALSE
    ELSE TRUE

\* get_strategy_modifiers(ai_output): the two modifiers execute_entry reads
get_strategy_modifiers(ai_output) ==
    IF ai_output.recommendation = "HALT"
    THEN [risk_multiplier |-> R(0), skip_entries |-> TRUE]
    ELSE IF ai_output.recommendation = "REDUCE_RISK"
    THEN [risk_multiplier |-> <<1, 2>>, skip_entries |-> FALSE]
    ELSE IF ai_output.risk_level = "HIGH"
    THEN [risk_multiplier |-> <<7, 10>>, skip_entries |-> FALSE]
    ELSE IF ai_output.risk_level = "EXTREME"
    THEN [risk_multiplier |-> R(0), skip_entries |-> TRUE]
    ELSE [risk_multiplier |-> R(1), skip_entries |-> FALSE]

\* should_halt(ai_output)
should_halt(ai_output) ==
    \/ ai_output.recommendation = "HALT"
    \/ ai_output.risk_level = "EXTREME"
    \/ ai_output.regime = "UNKNOWN" /\ RLt(ai_output.confidence, <<3, 10>>)

(***************************************************************************)
(* utils/helpers.py                                                        *)
(***************************************************************************)
Million == 1000000

\* round_down(value, 6), for value >= 0
round_down6(value) == Rat((value[1] * Million) \div value[2], Million)

\* helpers.calculate_position_size(balance, risk_percent, entry_price, stop_price)
helpers_calculate_position_size(balance, risk_percent, entry_price, stop_price) ==
    IF RGe(stop_price, entry_price) THEN R(0)
    ELSE LET risk_amount == RMul(balance, RDiv(risk_percent, R(100)))
             price_risk == RSub(entry_price, stop_price)
         IN  IF RLe(price_risk, R(0)) THEN R(0)
             ELSE round_down6(RDiv(risk_amount, price_risk))

(***************************************************************************)
(* EmergencyStop (risk/emergency_stop.py); _history, which only get_status *)
(* reads, is left out, and triggered_at is the variable triggered_at, set  *)
(* by StopTrigger                                                          *)
(***************************************************************************)
\* EmergencyStop(): its EmergencyStopState
EmergencyStop__init__ ==
    [is_active |-> FALSE, reason |-> "None", triggered_by |-> "None",
     recovery_attempts |-> 0]

\* a trigger that takes the new reason on a stop already active
trigger_Overwrites(self, reason, triggered_by) ==
    [ret |-> ~self.is_active,
     self |-> [self EXCEPT !.is_active = TRUE, !.reason = reason,
                           !.triggered_by = triggered_by]]

\* EmergencyStop.trigger(reason, triggered_by): [ret, self]
trigger(self, reason, triggered_by) ==
    IF self.is_active THEN [ret |-> FALSE, self |-> self]
    ELSE [ret |-> TRUE,
          self |-> [self EXCEPT !.is_active = TRUE, !.reason = reason,
                                !.triggered_by = triggered_by]]

\* EmergencyStop.release(password, released_by): [ret, self]
release(self, password) ==
    IF ~self.is_active THEN [ret |-> FALSE, self |-> self]
    ELSE IF password # "EMERGENCY_RELEASE" THEN [ret |-> FALSE, self |-> self]
    ELSE [ret |-> TRUE,
          self |-> [self EXCEPT !.is_active = FALSE,
                                !.recovery_attempts = self.recovery_attempts + 1]]

\* a check_and_halt that never halts
check_and_halt_Never(self) == FALSE

\* EmergencyStop.check_and_halt()
check_and_halt(self) == self.is_active

(***************************************************************************)
(* TradeState (state/trade_state.py): the trades and bot_state["last_run"] *)
(***************************************************************************)
TradeState__init__ == [trades |-> <<>>, last_run |-> NoTime]

\* TradeState.record_trade(trade)
record_trade(self, trade) == [self EXCEPT !.trades = Append(self.trades, trade)]

\* TradeState.update_last_run(), called at time t
update_last_run(self, t) == [self EXCEPT !.last_run = t]

(***************************************************************************)
(* AutonomousTradingBot (main.py) and OrderExecutor                        *)
(* (exchange/order_executor.py)                                            *)
(*                                                                         *)
(* The methods are operators over the record S of the objects the bot      *)
(* holds: paper_trading, config, risk_engine, position_manager,            *)
(* trade_state, candles, last_update, and obs, the account of the          *)
(* iteration under way. The exchange client and the order executor exist   *)
(* exactly when paper_trading is false, and the executor then places real  *)
(* orders. The candles are kept by what the bot computes from them: their  *)
(* number, the last close, the ATR and the entry signal.                   *)
(***************************************************************************)
initial_balance == 10000                \* AutonomousTradingBot.initial_balance
atr_stop_multiplier == <<3, 2>>         \* CONFIG.strategy.atr_stop_multiplier
MinCandles == 50                        \* candles fetch_market_data and analyze_market ask for

NoCandles == [len |-> 0, close |-> R(0), atr |-> R(0), entry_signal |-> FALSE]

\* what exchange_client.fetch_ohlcv can do: raise, or return candles
MarketFeeds ==
    { [ok |-> FALSE, candles |-> NoCandles],
      [ok |-> TRUE, candles |-> [len |-> 20, close |-> R(100), atr |-> R(2), entry_signal |-> FALSE]],
      [ok |-> TRUE, candles |-> [len |-> 200, close |-> R(100), atr |-> R(2), entry_signal |-> TRUE]],
      [ok |-> TRUE, candles |-> [len |-> 200, close |-> R(97), atr |-> R(2), entry_signal |-> FALSE]],
      [ok |-> TRUE, candles |-> [len |-> 200, close |-> R(103), atr |-> R(2), entry_signal |-> FALSE]],
      [ok |-> TRUE, candles |-> [len |-> 200, close |-> R(106), atr |-> R(2), entry_signal |-> FALSE]] }

\* the OrderResult of a market buy: failed, or filled with no price reported
BuyResults ==
    { [success |-> FALSE, price |-> NoPrice],
      [success |-> TRUE, price |-> NoPrice] }

\* the account of one run_iteration
NoTick ==
    [halted |-> FALSE, fetched |-> FALSE, allow |-> <<>>, can_open |-> <<>>,
     count |-> -1, orders |-> <<>>, sold |-> <<>>]

Order(side, type, amount) == [side |-> side, type |-> type, amount |-> amount]

\* AutonomousTradingBot.fetch_market_data(), called at time t: [ret, self]
fetch_market_data(S, feed, t) ==
    IF S.paper_trading THEN [ret |-> FALSE, self |-> S]
    ELSE LET F == [S EXCEPT !.obs.fetched = TRUE]
         IN  IF ~feed.ok THEN [ret |-> FALSE, self |-> F]
             ELSE [ret |-> feed.candles.len >= MinCandles,
                   self |-> [F EXCEPT !.candles = feed.candles, !.last_update = t]]

\* AutonomousTradingBot.analyze_market(): the entries of market_data the bot reads
analyze_market(S) ==
    IF S.candles.len < MinCandles
    THEN [error |-> TRUE, current_price |-> R(0), atr |-> R(0)]
    ELSE [error |-> FALSE, current_price |-> S.candles.close, atr |-> S.candles.atr]

\* OrderExecutor.execute_sell(symbol, amount, reason=reason), with the OrderResult
\* the exchange gives
execute_sell(S, amount, success) ==
    LET A == [S EXCEPT !.obs.orders = Append(S.obs.orders, Order("sell", "market", amount)),
                       !.obs.sold = Append(S.obs.sold, success)]
    IN  IF success
        THEN [A EXCEPT !.risk_engine = register_trade_close(A.risk_engine, NoPnl)]
        ELSE A

\* OrderExecutor.execute_buy(symbol, amount, stop_loss, take_profit), called at
\* time t with the OrderResult the exchange gives: [ret, self]
execute_buy(S, amount, stop_loss, result, t) ==
    LET g == can_open_trade(S.risk_engine, t)
        A == [S EXCEPT !.risk_engine = g.self,
                       !.obs.can_open = Append(S.obs.can_open, g.ret)]
    IN  IF ~g.ret THEN [ret |-> [success |-> FALSE, price |-> NoPrice], self |-> A]
        ELSE LET B == [A EXCEPT !.obs.orders =
                          Append(A.obs.orders, Order("buy", "market", amount))]
                 C == IF result.success /\ stop_loss[1] # 0
                      THEN [B EXCEPT !.obs.orders =
                               Append(B.obs.orders, Order("sell", "stop_loss", amount))]
                      ELSE B
                 D == IF result.success
                      THEN [C EXCEPT !.risk_engine = register_trade_open(C.risk_engine, t)]
                      ELSE C
             IN  [ret |-> result, self |-> D]

\* AutonomousTradingBot.execute_exit(position, exit_price, reason), called at time t
execute_exit(S, position_id, exit_price, reason, sell_success, t) ==
    LET c == close_position(S.position_manager, position_id, exit_price, reason, t)
    IN  IF c.ret.id = 0 THEN S
        ELSE LET position == c.ret
                 A == [S EXCEPT !.position_manager = c.self]
                 B == IF ~A.paper_trading
                      THEN execute_sell(A, position.amount, sell_success) ELSE A
                 pnl == position.pnl_percent
                 C == [B EXCEPT !.risk_engine = register_trade_close(B.risk_engine, pnl)]
                 trade_record ==
                     [trade_id |-> position.id,
                      entry_price |-> position.entry_price,
                      exit_price |-> exit_price,
                      amount |-> position.amount,
                      entry_time |-> position.entry_time,
                      exit_time |-> position.exit_time,
                      exit_reason |-> reason,
                      pnl_percent |-> pnl,
                      pnl_amount |-> RMul(position.amount,
                                          RSub(exit_price, position.entry_price))]
             IN  [C EXCEPT !.trade_state = record_trade(C.trade_state, trade_record)]

\* the ids of get_open_positions()
OpenIds(pm) == [i \in 1..get_position_count(pm) |-> get_open_positions(pm)[i].id]

\* the loop of manage_positions over the positions ids
RECURSIVE ManageEach(_, _, _, _, _)
ManageEach(S, ids, current_price, sell_success, t) ==
    IF ids = <<>> THEN S
    ELSE LET id == Head(ids)
             pm == update_position_price(S.position_manager, id, current_price)
             exit_check == check_exit_conditions(pm.positions[id], current_price, S.candles)
             A == [S EXCEPT !.position_manager =
                               [pm EXCEPT !.positions[id] = exit_check.position]]
         IN  IF exit_check.should_exit
             THEN ManageEach(execute_exit(A, id, current_price, exit_check.reason,
                                          sell_success, t),
                             Tail(ids), current_price, sell_success, t)
             ELSE LET u == update_trailing_stop(exit_check.position, current_price, S.candles)
                      p == IF u.ret[1] # 0 /\ RGt(u.ret, u.position.stop_loss)
                           THEN [u.position EXCEPT !.stop_loss = u.ret]
                           ELSE u.position
                  IN  ManageEach([A EXCEPT !.position_manager.positions[id] = p],
                                 Tail(ids), current_price, sell_success, t)

\* AutonomousTradingBot.manage_positions(market_data), called at time t
manage_positions(S, market_data, sell_success, t) ==
    ManageEach(S, OpenIds(S.position_manager), market_data.current_price, sell_success, t)

\* check_entry_conditions after the AI gatekeeper has let it pass: [ret, self], ret
\* whether entry data is returned
EntryAfterGatekeeper(S, t) ==
    LET g == can_open_trade(S.risk_engine, t)
        A == [S EXCEPT !.risk_engine = g.self,
                       !.obs.can_open = Append(S.obs.can_open, g.ret)]
    IN  IF ~g.ret THEN [ret |-> FALSE, self |-> A]
        ELSE IF get_position_count(A.position_manager) >= A.config.max_open_positions
        THEN [ret |-> FALSE, self |-> A]
        ELSE IF has_open_position(A.position_manager, symbol) THEN [ret |-> FALSE, self |-> A]
        ELSE [ret |-> A.candles.entry_signal, self |-> A]

\* a check_entry_conditions that goes on whatever the AI gatekeeper says
check_entry_conditions_IgnoresGatekeeper(S, ai_result, t) ==
    EntryAfterGatekeeper([S EXCEPT !.obs.allow = Append(S.obs.allow, allow_trading(ai_result))], t)

\* AutonomousTradingBot.check_entry_conditions(market_data, ai_result), called at
\* time t: [ret, self]
check_entry_conditions(S, ai_result, t) ==
    LET a == allow_trading(ai_result)
        A == [S EXCEPT !.obs.allow = Append(S.obs.allow, a)]
    IN  IF ~a THEN [ret |-> FALSE, self |-> A]
        ELSE EntryAfterGatekeeper(A, t)

\* AutonomousTradingBot.execute_entry(entry_data), called at time t; ai_result is
\* the AIAnalysisResult handed to get_strategy_modifiers, buy the OrderResult the
\* exchange gives to the market buy
execute_entry(S, market_data, ai_result, buy, t) ==
    LET ai_modifiers == get_strategy_modifiers(ai_result)
        entry_price == S.candles.close
        risk_percent == RMul(S.config.max_risk_per_trade_percent, ai_modifiers.risk_multiplier)
        stop_loss == RSub(entry_price, RMul(market_data.atr, atr_stop_multiplier))
        take_profit == RAdd(entry_price, RMul(RSub(entry_price, stop_loss), R(2)))
        position_size == helpers_calculate_position_size(R(initial_balance), risk_percent,
                                                         entry_price, stop_loss)
    IN  IF ai_modifiers.skip_entries THEN S
        ELSE IF RLe(position_size, R(0)) THEN S
        ELSE LET b == IF ~S.paper_trading
                      THEN execute_buy(S, position_size, stop_loss, buy, t)
                      ELSE [ret |-> [success |-> TRUE, price |-> NoPrice], self |-> S]
                 filled == IF b.ret.price[1] # 0 THEN b.ret.price ELSE entry_price
                 o == open_position(b.self.position_manager, symbol, "long", filled,
                                    position_size,
                                    stop_loss, take_profit, t)
                 A == [b.self EXCEPT !.position_manager = o.self]
             IN  IF ~b.ret.success THEN b.self
                 ELSE IF o.ret.id # 0
                 THEN [A EXCEPT !.risk_engine = register_trade_open(A.risk_engine, t)]
                 ELSE A

(***************************************************************************)
(* The bot, the operator's emergency stop, and the clock                   *)
(***************************************************************************)
StopReasons == {"operator"}

\* RiskConfig values of the bot: one within the absolute limits, and one with
\* MAX_DRAWDOWN_PERCENT=0, under which update_balance raises the emergency flag
BotRiskConfigs ==
    { c \in EnvRiskConfigs : c.max_open_positions = max_positions } \cup
    { [max_risk_per_trade_percent |-> R(1),
       max_daily_loss_percent |-> R(3),
       max_drawdown_percent |-> R(0),
       max_consecutive_losses |-> 2,
       max_open_positions |-> 2,
       max_trades_per_day |-> 2,
       min_time_between_trades_seconds |-> 300] }

\* the objects the bot holds, at the start of an iteration
Self ==
    [paper_trading |-> paper_trading, config |-> config, risk_engine |-> risk_engine,
     position_manager |-> position_manager, trade_state |-> trade_state,
     candles |-> candles, last_update |-> last_update, obs |-> NoTick]

\* the objects as an iteration leaves them
Leave(S) ==
    /\ risk_engine' = S.risk_engine
    /\ position_manager' = S.position_manager
    /\ trade_state' = S.trade_state
    /\ candles' = S.candles
    /\ last_update' = S.last_update
    /\ tick' = S.obs

\* the end of run_iteration: trade_state.update_last_run()
Finish(S) == Leave([S EXCEPT !.trade_state = update_last_run(S.trade_state, now)])

\* run_iteration from the entry check on
TryEntry(S, market_data, ai_result) ==
    LET count == get_position_count(S.position_manager)
        A == [S EXCEPT !.obs.count = count]
    IN  IF count < A.config.max_open_positions
        THEN LET e == check_entry_conditions(A, ai_result, now)
             IN  IF e.ret
                 THEN \E ai_again \in AIResults, buy \in BuyResults :
                          Finish(execute_entry(e.self, market_data, ai_again, buy, now))
                 ELSE Finish(e.self)
        ELSE Finish(A)

\* AutonomousTradingBot.run_iteration()
RunIteration ==
    /\ IF check_and_halt(emergency_stop) THEN Leave([Self EXCEPT !.obs.halted = TRUE])
       ELSE IF risk_engine.state.emergency_stop THEN Leave([Self EXCEPT !.obs.halted = TRUE])
       ELSE \E feed \in MarketFeeds :
              LET f == fetch_market_data(Self, feed, now)
                  market_data == analyze_market(f.self)
              IN  IF ~f.ret THEN Leave(f.self)
                  ELSE IF market_data.error THEN Leave(f.self)
                  ELSE LET A == [f.self EXCEPT !.risk_engine =
                                    update_balance(f.self.risk_engine, R(initial_balance),
                                                   R(initial_balance))]
                       IN  \E ai_result \in AIResults :
                             IF get_position_count(A.position_manager) = 0
                             THEN TryEntry(A, market_data, ai_result)
                             ELSE \E sell_success \in BOOLEAN :
                                    TryEntry(manage_positions(A, market_data, sell_success, now),
                                             market_data, ai_result)
    /\ UNCHANGED <<now, config, paper_trading, emergency_stop>>

\* the operator calls EmergencyStop.trigger
Trigger ==
    /\ \E reason \in StopReasons :
          emergency_stop' = trigger(emergency_stop, reason, "manual").self
    /\ UNCHANGED <<now, config, risk_engine, paper_trading, position_manager, trade_state,
                   candles, last_update, tick>>

\* a UTC day passes between iterations; what the RiskEngine does with calls 300
\* seconds apart is in SpecRisk
BotClock ==
    /\ AdvanceDay
    /\ UNCHANGED <<config, risk_engine, botVars>>

\* the loop of shutdown over get_open_positions(): execute_exit at the close of
\* the last candle, or at the entry price when the bot holds no candle
RECURSIVE ShutdownEach(_, _, _, _)
ShutdownEach(S, ids, sell_success, t) ==
    IF ids = <<>> THEN S
    ELSE ShutdownEach(execute_exit(S, Head(ids),
                                   IF S.candles.len > 0 THEN S.candles.close
                                   ELSE S.position_manager.positions[Head(ids)].entry_price,
                                   "EMERGENCY_SHUTDOWN", sell_success, t),
                      Tail(ids), sell_success, t)

\* a shutdown that never closes a position
IsEmergency_Never(stop, S) == FALSE

\* the condition of shutdown: emergency_stop.is_active() or risk_engine.state.emergency_stop
IsEmergency(stop, S) == stop.is_active \/ S.risk_engine.state.emergency_stop

\* AutonomousTradingBot.shutdown(), called at time t
shutdown(S, stop, sell_success, t) ==
    IF IsEmergency(stop, S)
    THEN ShutdownEach(S, OpenIds(S.position_manager), sell_success, t)
    ELSE S

\* run() is interrupted between two iterations (KeyboardInterrupt) and calls shutdown()
Stop ==
    /\ running
    /\ running' = FALSE
    /\ \E sell_success \in BOOLEAN :
           Leave(shutdown(Self, emergency_stop, sell_success, now))
    /\ UNCHANGED <<now, config, paper_trading, emergency_stop>>

BotIdle ==
    /\ paper_trading = TRUE
    /\ emergency_stop = EmergencyStop__init__
    /\ position_manager = PositionManager__init__
    /\ trade_state = TradeState__init__
    /\ candles = NoCandles
    /\ last_update = NoTime
    /\ tick = NoTick

(***************************************************************************)
(* AI advisory committee (paid_trading_bot/ai_advisory)                    *)
(***************************************************************************)
\* RegimeClassifierOutput(regime, confidence, volatility_state, tradeable, reasoning)
RegimeClassifierOutput(regime, confidence, volatility_state) ==
    [regime |-> regime, confidence |-> confidence,
     volatility_state |-> volatility_state, tradeable |-> TRUE]

\* RegimeClassifierAgent.run(data)
RegimeClassifierAgent_run(data) ==
    LET spread == data.ema50_ema200_spread
        atr_pct == data.current_atr_percentile
    IN  IF RGe(atr_pct, R(90))
        THEN RegimeClassifierOutput("HIGH_VOLATILITY", <<7, 10>>, "EXTREME")
        ELSE IF RLt(RAbs(spread), R(1))
        THEN RegimeClassifierOutput("RANGING", <<3, 5>>, "NORMAL")
        ELSE IF RGe(spread, R(1))
        THEN RegimeClassifierOutput("TRENDING_UP", <<7, 10>>, "NORMAL")
        ELSE RegimeClassifierOutput("TRENDING_DOWN", <<7, 10>>, "NORMAL")

\* a GovernorOutput whose risk_multiplier is twice the one given
GovernorOutput_Doubled(recommendation, risk_multiplier, cooldown_minutes, alerts) ==
    [recommendation |-> recommendation, risk_multiplier |-> RMul(R(2), risk_multiplier),
     cooldown_minutes |-> cooldown_minutes, alerts |-> alerts]

\* GovernorOutput(recommendation, risk_multiplier, cooldown_minutes, reasoning, alerts)
GovernorOutput(recommendation, risk_multiplier, cooldown_minutes, alerts) ==
    [recommendation |-> recommendation, risk_multiplier |-> risk_multiplier,
     cooldown_minutes |-> cooldown_minutes, alerts |-> alerts]

\* a governor that tests HIGH_VOLATILITY before the consecutive losses
StrategyGovernorAgent_run_VolatilityFirst(data) ==
    IF data.regime = "CHOPPY"
    THEN GovernorOutput("HALT", R(0), 0, <<"CHOPPY_REGIME">>)
    ELSE IF RLe(data.daily_pnl_percent, R(-2))
    THEN GovernorOutput("HALT", R(0), 0, <<"DAILY_LOSS_THRESHOLD">>)
    ELSE IF data.trades_today >= data.max_trades_per_day
    THEN GovernorOutput("HALT", R(0), 0, <<"MAX_TRADES_REACHED">>)
    ELSE IF data.regime = "HIGH_VOLATILITY"
    THEN GovernorOutput("TRADE", <<1, 2>>, 0, <<"HIGH_VOLATILITY">>)
    ELSE IF data.consecutive_losses >= 3
    THEN GovernorOutput("COOLDOWN", <<1, 2>>, 30, <<"CONSECUTIVE_LOSSES_3">>)
    ELSE IF data.consecutive_losses >= 2
    THEN GovernorOutput("TRADE", <<3, 4>>, 0, <<"CONSECUTIVE_LOSSES_2">>)
    ELSE GovernorOutput("TRADE", R(1), 0, <<>>)

\* StrategyGovernorAgent.run(data)
StrategyGovernorAgent_run(data) ==
    IF data.regime = "CHOPPY"
    THEN GovernorOutput("HALT", R(0), 0, <<"CHOPPY_REGIME">>)
    ELSE IF RLe(data.daily_pnl_percent, R(-2))
    THEN GovernorOutput("HALT", R(0), 0, <<"DAILY_LOSS_THRESHOLD">>)
    ELSE IF data.trades_today >= data.max_trades_per_day
    THEN GovernorOutput("HALT", R(0), 0, <<"MAX_TRADES_REACHED">>)
    ELSE IF data.consecutive_losses >= 3
    THEN GovernorOutput("COOLDOWN", <<1, 2>>, 30, <<"CONSECUTIVE_LOSSES_3">>)
    ELSE IF data.consecutive_losses >= 2
    THEN GovernorOutput("TRADE", <<3, 4>>, 0, <<"CONSECUTIVE_LOSSES_2">>)
    ELSE IF data.regime = "HIGH_VOLATILITY"
    THEN GovernorOutput("TRADE", <<1, 2>>, 0, <<"HIGH_VOLATILITY">>)
    ELSE GovernorOutput("TRADE", R(1), 0, <<>>)

\* SentinelOutput(status, anomalies_detected, action_required, explanation)
SentinelOutput(status, anomalies, action) ==
    [status |-> status, anomalies_detected |-> anomalies, action_required |-> action]

\* RiskSentinelAgent.run(data): the four checks in turn, each one appending its
\* anomaly and overwriting status and action
RiskSentinelAgent_run(data) ==
    LET s0 == SentinelOutput("HEALTHY", <<>>, "NONE")
        s1 == IF RGt(data.average_slippage_bps, R(50))
              THEN SentinelOutput("WARNING",
                                  Append(s0.anomalies_detected, "HIGH_SLIPPAGE"),
                                  "REDUCE_SIZE")
              ELSE s0
        s2 == IF data.api_error_count_1h > 5
              THEN SentinelOutput("CRITICAL",
                                  Append(s1.anomalies_detected, "API_ERRORS"), "PAUSE")
              ELSE s1
        bal_disc_pct ==
            IF RGt(data.expected_balance, R(0))
            THEN RMul(RDiv(RAbs(RSub(data.account_balance, data.expected_balance)),
                           data.expected_balance), R(100))
            ELSE R(0)
        s3 == IF RGt(bal_disc_pct, R(1))
              THEN SentinelOutput("CRITICAL",
                                  Append(s2.anomalies_detected, "BALANCE_MISMATCH"),
                                  "EMERGENCY_HALT")
              ELSE s2
    IN  IF Upper(data.exchange_status) # "NORMAL"
        THEN SentinelOutput("CRITICAL",
                            Append(s3.anomalies_detected, "EXCHANGE_STATUS"), "PAUSE")
        ELSE s3

\* an orchestrator in which no sentinel status overrides the governor
SentinelNeverOverrides(sentinel_output) == FALSE

\* analyze: if sentinel_output.status == "CRITICAL"
SentinelOverrides(sentinel_output) == sentinel_output.status = "CRITICAL"

\* the three agents run by analyze, on their inputs
RunAgents(in) ==
    [regime_output |-> RegimeClassifierAgent_run(in.regime_input),
     governor_output |-> StrategyGovernorAgent_run(in.governor_input),
     sentinel_output |-> RiskSentinelAgent_run(in.sentinel_input)]

\* AIAdvisoryOrchestrator.analyze, from the agents' outputs on: the AIAdvisoryResult
\* (its reasoning, a formatted string, left out)
Combine(agents) ==
    LET regime_output == agents.regime_output
        governor_output == agents.governor_output
        sentinel_output == agents.sentinel_output
        override == SentinelOverrides(sentinel_output)
        final_recommendation == IF override THEN "HALT"
                                ELSE governor_output.recommendation
        final_risk_multiplier == IF override THEN R(0)
                                 ELSE governor_output.risk_multiplier
        final_cooldown == IF override THEN 0 ELSE governor_output.cooldown_minutes
    IN  [regime |-> regime_output.regime,
         confidence |-> regime_output.confidence,
         volatility_state |-> regime_output.volatility_state,
         tradeable |-> regime_output.tradeable /\ final_recommendation = "TRADE",
         recommendation |-> final_recommendation,
         risk_multiplier |-> final_risk_multiplier,
         cooldown_minutes |-> final_cooldown,
         sentinel_status |-> sentinel_output.status,
         anomalies |-> sentinel_output.anomalies_detected]

\* AIAdvisoryOrchestrator.analyze(regime_input, governor_input, sentinel_input)
analyze(in) == Combine(RunAgents(in))

RegimeInputs ==
    [current_atr_percentile : {R(50), R(90)},
     ema50_ema200_spread : {R(-2), R(0), R(1)}]

GovernorInputs ==
    [regime : {"TRENDING_UP", "HIGH_VOLATILITY", "CHOPPY"},
     daily_pnl_percent : {R(-2), R(-1)},
     consecutive_losses : {1, 2, 3},
     trades_today : {4, 5},
     max_trades_per_day : {5}]

SentinelInputs ==
    [average_slippage_bps : {R(50), R(60)},
     api_error_count_1h : {5, 6},
     account_balance : {R(100), R(98)},
     expected_balance : {R(100), R(0)},
     exchange_status : {"NORMAL", "normal", "MAINTENANCE"}]

AdvisoryInputs ==
    [regime_input : RegimeInputs, governor_input : GovernorInputs,
     sentinel_input : SentinelInputs]

NoAgents == [regime_output |-> "None"]
NoAdvisory == [recommendation |-> "None"]

AdvisoryIdle ==
    /\ adv_in = [regime_input |-> "None"]
    /\ adv_agents = NoAgents
    /\ adv_out = NoAdvisory

\* one call of analyze on the inputs drawn
Analyze ==
    /\ adv_out = NoAdvisory
    /\ adv_agents' = RunAgents(adv_in)
    /\ adv_out' = analyze(adv_in)
    /\ UNCHANGED adv_in

(***************************************************************************)
(* Indicators (paid_trading_bot/data/indicators.py)                        *)
(***************************************************************************)
\* The indicators and the strategy compute on floats. A float is modelled as a
\* rational of at most Precision significant bits (53 in the program, fewer here to
\* keep integers small; the exponent is not bounded), and each operation rounds
\* its exact result to the nearest float, ties to even, as IEEE 754 does.
Precision == 11

\* the one element of a set of one element. In {F(v) : v \in {e}}, used below, v is
\* the value of e, computed once however often F reads it.
Only(S) == CHOOSE x \in S : TRUE

\* a / d, a >= 0 and d > 0, to the nearest integer, ties to even
RoundHalfEven(a, d) ==
    IF 2 * (a % d) > d \/ (2 * (a % d) = d /\ (a \div d) % 2 = 1) THEN (a \div d) + 1
    ELSE a \div d

\* a * 2^s / d >= 2^(Precision - 1), for a >= 0, d > 0 and s >= 0
HasAllBits(a, d, s) ==
    IF s <= Precision - 1 THEN a \div d >= 2^(Precision - 1 - s)
    ELSE a >= (d + 2^(s - Precision + 1) - 1) \div 2^(s - Precision + 1)

\* the least s with a * 2^s / d >= 2^(Precision - 1)
UpShift(a, d) == Cardinality({s \in 0..30 : ~HasAllBits(a, d, s)})

\* the least s with a / (d * 2^s) < 2^Precision
DownShift(a, d) == Cardinality({s \in 0..29 : (a \div d) \div 2^s >= 2^Precision})

\* the largest n <= s with 2^n a divisor of d
EvenPart(d, s) == Cardinality({n \in 1..s : d % 2^n = 0})

\* a / d > 0 to the nearest float: scaled by the power of 2 that gives its integer
\* part Precision bits (down by 2^down, or up by 2^up, of which 2^t is taken out of
\* d), rounded there, and scaled back
RoundPositive(a, d) ==
    Only({Only({Rat(RoundHalfEven(a * 2^(up - t), (d \div 2^t) * 2^down) * 2^down, 2^up) :
                   t \in {EvenPart(d, up)}}) :
             up \in {UpShift(a, d)}, down \in {DownShift(a, d)}})

\* the float nearest to the rational v
RoundValue(v) ==
    IF v[1] = 0 THEN v
    ELSE Only({IF v[1] > 0 THEN r ELSE RNeg(r) :
                  r \in {RoundPositive(IF v[1] > 0 THEN v[1] ELSE -v[1], v[2])}})

FRound(q) == Only({RoundValue(v) : v \in {q}})

\* the float written n/d, or the float division of the integers n and d
Float(n, d) == FRound(Rat(n, d))

\* float +, -, *, /
FAdd(a, b) == Only({FRound(RAdd(x, y)) : x \in {a}, y \in {b}})
FSub(a, b) == Only({FRound(RSub(x, y)) : x \in {a}, y \in {b}})
FMul(a, b) == Only({FRound(RMul(x, y)) : x \in {a}, y \in {b}})
FDiv(a, b) == Only({FRound(RDiv(x, y)) : x \in {a}, y \in {b}})

\* sum(values) of a list of floats: the additions from left to right, starting from
\* the integer 0, as CPython 3.11 and earlier add them
RECURSIVE SumLoop(_, _, _)
SumLoop(values, i, total) ==
    IF i > Len(values) THEN total
    ELSE Only({SumLoop(values, i + 1, next) : next \in {FAdd(total, values[i])}})

FSum(values) == SumLoop(values, 1, R(0))

\* sum(values[:n]) / n
Mean(values, n) == FDiv(FSum(SubSeq(values, 1, n)), R(n))

\* the loop "for v in values[start_idx:]" of calculate_ema, from the 1-based index i
RECURSIVE EmaLoop(_, _, _, _)
EmaLoop(values, i, k, ema) ==
    IF i > Len(values) THEN ema
    ELSE Only({EmaLoop(values, i + 1, k, next) :
                  next \in {Append(ema, FAdd(FMul(FSub(values[i], ema[Len(ema)]), k),
                                             ema[Len(ema)]))}})

\* calculate_ema(values, period), period > 0: the list of EMA values, seeded with the
\* mean of all the values when they are fewer than period, of the first period
\* values otherwise
calculate_ema(values, period) ==
    IF Len(values) = 0 THEN <<>>
    ELSE EmaLoop(values, IF Len(values) < period THEN 2 ELSE period + 1,
                 Float(2, period + 1),
                 <<Mean(values, IF Len(values) < period THEN Len(values) ELSE period)>>)

\* rs_to_rsi(avg_gain / avg_loss), or 100.0 when avg_loss == 0
RsiOf(avg_gain, avg_loss) ==
    IF avg_loss = R(0) THEN R(100)
    ELSE FSub(R(100), FDiv(R(100), FAdd(R(1), FDiv(avg_gain, avg_loss))))

\* (prev * (period - 1) + value) / period, the smoothing calculate_rsi and
\* calculate_atr apply
Smooth(prev, value, period) == FDiv(FAdd(FMul(prev, R(period - 1)), value), R(period))

\* the loop "for i in range(period, len(gains))" of calculate_rsi, from the 1-based i
RECURSIVE RsiLoop(_, _, _, _, _, _, _)
RsiLoop(gains, losses, period, i, avg_gain, avg_loss, rsi) ==
    IF i > Len(gains) THEN rsi
    ELSE Only({Only({RsiLoop(gains, losses, period, i + 1, g, l, next) :
                        next \in {Append(rsi, RsiOf(g, l))}}) :
                  g \in {Smooth(avg_gain, gains[i], period)},
                  l \in {Smooth(avg_loss, losses[i], period)}})

\* calculate_rsi from the lists gains and losses on
RsiFrom(gains, losses, period) ==
    IF Len(gains) < period THEN <<>>
    ELSE Only({RsiLoop(gains, losses, period, period + 1, avg_gain, avg_loss,
                       <<RsiOf(avg_gain, avg_loss)>>) :
                  avg_gain \in {Mean(gains, period)}, avg_loss \in {Mean(losses, period)}})

\* calculate_rsi(closes, period), period > 0: the list of RSI values
calculate_rsi(closes, period) ==
    IF Len(closes) < 2 THEN <<>>
    ELSE RsiFrom([i \in 1..(Len(closes) - 1) |->
                     RMax(FSub(closes[i + 1], closes[i]), R(0))],
                 [i \in 1..(Len(closes) - 1) |->
                     RMax(RNeg(FSub(closes[i + 1], closes[i])), R(0))],
                 period)

\* the loop "for tr in true_ranges[period:]" of calculate_atr, from the 1-based i
RECURSIVE AtrLoop(_, _, _, _)
AtrLoop(true_ranges, period, i, atr) ==
    IF i > Len(true_ranges) THEN atr
    ELSE Only({AtrLoop(true_ranges, period, i + 1, next) :
                  next \in {Append(atr, Smooth(atr[Len(atr)], true_ranges[i], period))}})

\* calculate_atr from the list true_ranges on
AtrFrom(true_ranges, period) ==
    IF Len(true_ranges) < period THEN <<>>
    ELSE AtrLoop(true_ranges, period, period + 1, <<Mean(true_ranges, period)>>)

\* min(len(highs), len(lows), len(closes))
MinLen(highs, lows, closes) ==
    IF Len(highs) <= Len(lows) /\ Len(highs) <= Len(closes) THEN Len(highs)
    ELSE IF Len(lows) <= Len(closes) THEN Len(lows) ELSE Len(closes)

\* calculate_atr(highs, lows, closes, period), period > 0: the list of ATR values
calculate_atr(highs, lows, closes, period) ==
    IF MinLen(highs, lows, closes) < 2 THEN <<>>
    ELSE AtrFrom([i \in 1..(MinLen(highs, lows, closes) - 1) |->
                     RMax(FSub(highs[i + 1], lows[i + 1]),
                          RMax(RAbs(FSub(highs[i + 1], closes[i])),
                               RAbs(FSub(lows[i + 1], closes[i]))))],
                 period)

(***************************************************************************)
(* Entry logic (paid_trading_bot/strategy/entry_logic.py)                  *)
(***************************************************************************)
NoSignal == [side |-> "None"]

\* EntrySignal(side, entry_price, stop_loss, take_profit_1, take_profit_2, atr)
EntrySignal(side, entry_price, stop_loss, take_profit_1, take_profit_2, atr) ==
    [side |-> side, entry_price |-> entry_price, stop_loss |-> stop_loss,
     take_profit_1 |-> take_profit_1, take_profit_2 |-> take_profit_2, atr |-> atr]

\* a gate that only HALT closes
GateNotOpen_HaltOnly(ai_gate) == ai_gate = "HALT"

\* evaluate_entry: ai_gate != AIGateStatus.OPEN
GateNotOpen(ai_gate) == ai_gate # "OPEN"

\* evaluate_entry: current_price > current_ema20
AboveEma(current_price, current_ema20) == RGt(current_price, current_ema20)

\* evaluate_entry from "pullback_threshold = current_ema20 * 0.003" on
EntryAt(trend_bias, current_price, current_ema20, current_rsi, current_atr) ==
    IF ~RLt(RAbs(FSub(current_price, current_ema20)), FMul(current_ema20, Float(3, 1000)))
    THEN [ret |-> NoSignal, at |-> "pullback"]
    ELSE IF /\ trend_bias = "BULLISH"
            /\ RGt(current_rsi, R(45))
            /\ AboveEma(current_price, current_ema20)
    THEN [ret |-> EntrySignal("LONG", current_price,
                              FSub(current_price, FMul(<<3, 2>>, current_atr)),
                              FAdd(current_price, FMul(<<3, 2>>, current_atr)),
                              FAdd(current_price, FMul(R(3), current_atr)), current_atr),
          at |-> "long"]
    ELSE IF /\ trend_bias = "BEARISH"
            /\ RLt(current_rsi, R(55))
            /\ RLt(current_price, current_ema20)
    THEN [ret |-> EntrySignal("SHORT", current_price,
                              FAdd(current_price, FMul(<<3, 2>>, current_atr)),
                              FSub(current_price, FMul(<<3, 2>>, current_atr)),
                              FSub(current_price, FMul(R(3), current_atr)), current_atr),
          at |-> "short"]
    ELSE [ret |-> NoSignal, at |-> "end"]

\* evaluate_entry from "if not ema_20 or not rsi or not atr" on
EntryFrom(trend_bias, closes, ema_20, rsi, atr) ==
    IF ema_20 = <<>> \/ rsi = <<>> \/ atr = <<>>
    THEN [ret |-> NoSignal, at |-> "indicators"]
    ELSE EntryAt(trend_bias, closes[Len(closes)], ema_20[Len(ema_20)], rsi[Len(rsi)],
                 atr[Len(atr)])

\* evaluate_entry from "closes = [c.close for c in ohlcv_5m]" on
EntryOn(trend_bias, closes, highs, lows) ==
    Only({EntryFrom(trend_bias, closes, ema_20, rsi, atr) :
             ema_20 \in {calculate_ema(closes, 20)},
             rsi \in {calculate_rsi(closes, 14)},
             atr \in {calculate_atr(highs, lows, closes, 14)}})

\* evaluate_entry(ohlcv_5m, trend_bias, ai_gate, current_positions, max_positions):
\* [ret, at], ret the EntrySignal or NoSignal for None, at the return statement taken;
\* max_open is the argument max_positions
evaluate_entry(ohlcv_5m, trend_bias, ai_gate, current_positions, max_open) ==
    IF GateNotOpen(ai_gate) THEN [ret |-> NoSignal, at |-> "ai_gate"]
    ELSE IF trend_bias = "NEUTRAL" THEN [ret |-> NoSignal, at |-> "trend_bias"]
    ELSE IF current_positions >= max_open
    THEN [ret |-> NoSignal, at |-> "max_positions"]
    ELSE EntryOn(trend_bias, [i \in 1..Len(ohlcv_5m) |-> ohlcv_5m[i].close],
                 [i \in 1..Len(ohlcv_5m) |-> ohlcv_5m[i].high],
                 [i \in 1..Len(ohlcv_5m) |-> ohlcv_5m[i].low])

\* Candle(timestamp, open, high, low, close, volume), by the fields the strategy reads
Candle(open, high, low, close) ==
    [open |-> R(open), high |-> R(high), low |-> R(low), close |-> R(close)]

BaseLen == 20
ShortLen == 5

\* n candles alike
Repeat(candle, n) == [i \in 1..n |-> candle]

\* the candles that open a sequence: flat at 1000, or ranging 999..1001 around 1000
BaseCandles == {Candle(1000, 1000, 1000, 1000), Candle(1000, 1001, 999, 1000)}

\* the candles that end a sequence: one up, one down, one far above the EMA, and one
\* whose close is above its high
TailCandles ==
    {Candle(1000, 1001, 1000, 1001), Candle(1000, 1000, 999, 999),
     Candle(1000, 1010, 1000, 1010), Candle(1000, 1000, 1000, 1001)}

Tails ==
    {<<>>} \cup {<<a>> : a \in TailCandles} \cup {<<a, b>> : a, b \in TailCandles}

CandleSequences ==
    {<<>>, Repeat(Candle(1000, 1000, 1000, 1000), ShortLen)}
        \cup {Repeat(b, BaseLen) \o t : b \in BaseCandles, t \in Tails}

EntryInputs ==
    [ohlcv_5m : CandleSequences,
     trend_bias : {"BULLISH", "BEARISH", "NEUTRAL"},
     ai_gate : {"OPEN", "COOLDOWN", "HALT"},
     current_positions : {1, 2},
     max_positions : {2}]

NoEntry == [ret |-> NoSignal, at |-> "None"]

EntryIdle ==
    /\ e_in = [ohlcv_5m |-> <<>>]
    /\ e_out = NoEntry

\* one call of evaluate_entry on the inputs drawn
EvaluateEntry ==
    /\ e_out = NoEntry
    /\ e_out' = evaluate_entry(e_in.ohlcv_5m, e_in.trend_bias, e_in.ai_gate,
                               e_in.current_positions, e_in.max_positions)
    /\ UNCHANGED e_in

(***************************************************************************)
(* Trend, exits and the strategy orchestrator                              *)
(* (paid_trading_bot/strategy/trend_follower.py, exit_logic.py,            *)
(* orchestrator.py)                                                        *)
(***************************************************************************)
\* detect_trend from "threshold = latest_ema200 * 0.005" on
TrendAt(latest_ema50, latest_ema200, threshold) ==
    IF RGt(latest_ema50, FAdd(latest_ema200, threshold)) THEN "BULLISH"
    ELSE IF RLt(latest_ema50, FSub(latest_ema200, threshold)) THEN "BEARISH"
    ELSE "NEUTRAL"

\* detect_trend from "if not ema_50 or not ema_200" on
TrendFrom(ema_50, ema_200) ==
    IF ema_50 = <<>> \/ ema_200 = <<>> THEN "NEUTRAL"
    ELSE Only({TrendAt(ema_50[Len(ema_50)], ema_200[Len(ema_200)], threshold) :
                  threshold \in {FMul(ema_200[Len(ema_200)], Float(5, 1000))}})

\* detect_trend from "ema_50 = calculate_ema(closes, period=50)" on
TrendOn(closes) ==
    Only({TrendFrom(ema_50, ema_200) :
             ema_50 \in {calculate_ema(closes, 50)},
             ema_200 \in {calculate_ema(closes, 200)}})

\* detect_trend(ohlcv_1h)
detect_trend(ohlcv_1h) ==
    IF Len(ohlcv_1h) < 2 THEN "NEUTRAL"
    ELSE TrendOn([i \in 1..Len(ohlcv_1h) |-> ohlcv_1h[i].close])

\* exits that are all for the whole position
SizePercent_AlwaysFull(exit_type) == R(100)

\* the size_percent manage_exit gives to each exit_type
SizePercent(exit_type) == IF exit_type = "TAKE_PROFIT_1" THEN R(50) ELSE R(100)

NoExit == [exit_type |-> "None"]

\* ExitSignal(position_id, exit_type, exit_price, size_percent)
ExitSignal(position_id, exit_type, exit_price) ==
    [position_id |-> position_id, exit_type |-> exit_type, exit_price |-> exit_price,
     size_percent |-> SizePercent(exit_type)]

\* manage_exit(position, current_price): the ExitSignal, or NoExit for None
manage_exit(position, current_price) ==
    IF position.side = "LONG"
    THEN IF RLe(current_price, position.stop_loss)
         THEN ExitSignal(position.id, "STOP_LOSS", current_price)
         ELSE IF ~position.tp1_hit /\ RGe(current_price, position.take_profit_1)
         THEN ExitSignal(position.id, "TAKE_PROFIT_1", current_price)
         ELSE IF /\ position.tp1_hit
                 /\ position.highest_price # NoPrice
                 /\ RLe(current_price, FSub(position.highest_price,
                                            FMul(R(1), position.entry_atr)))
         THEN ExitSignal(position.id, "TRAILING_STOP", current_price)
         ELSE NoExit
    ELSE IF position.side = "SHORT"
    THEN IF RGe(current_price, position.stop_loss)
         THEN ExitSignal(position.id, "STOP_LOSS", current_price)
         ELSE IF ~position.tp1_hit /\ RLe(current_price, position.take_profit_1)
         THEN ExitSignal(position.id, "TAKE_PROFIT_1", current_price)
         ELSE IF /\ position.tp1_hit
                 /\ position.lowest_price # NoPrice
                 /\ RGe(current_price, FAdd(position.lowest_price,
                                            FMul(R(1), position.entry_atr)))
         THEN ExitSignal(position.id, "TRAILING_STOP", current_price)
         ELSE NoExit
    ELSE NoExit

\* the loop "for position in open_positions" of on_candles: the exit_signals list
RECURSIVE ExitLoop(_, _, _)
ExitLoop(positions, i, current_price) ==
    IF i > Len(positions) THEN <<>>
    ELSE Only({(IF exit_sig # NoExit THEN <<exit_sig>> ELSE <<>>)
                   \o ExitLoop(positions, i + 1, current_price) :
                  exit_sig \in {manage_exit(positions[i], current_price)}})

\* StrategyResult(trend, entry_signal, exit_signals), with the price the exits were
\* evaluated at
StrategyResult(trend, entry_signal, exit_signals, current_price) ==
    [trend |-> trend, entry_signal |-> entry_signal, exit_signals |-> exit_signals,
     current_price |-> current_price]

\* on_candles from "entry = evaluate_entry(...)" on
StrategyOn(trend, ohlcv_5m, positions, ai_gate, max_open, current_price) ==
    StrategyResult(trend,
                   evaluate_entry(ohlcv_5m, trend, ai_gate, Len(positions), max_open).ret,
                   ExitLoop(positions, 1, current_price), current_price)

\* EMAStrategyOrchestrator.on_candles(ohlcv_1h, ohlcv_5m, open_positions, ai_gate,
\* max_positions): the StrategyResult; positions is the argument open_positions,
\* max_open the argument max_positions
on_candles(ohlcv_1h, ohlcv_5m, positions, ai_gate, max_open) ==
    Only({StrategyOn(trend, ohlcv_5m, positions, ai_gate, max_open,
                     IF ohlcv_5m # <<>> THEN ohlcv_5m[Len(ohlcv_5m)].close ELSE R(0)) :
             trend \in {detect_trend(ohlcv_1h)}})

max_position_hold_hours == 72
MaxHours == 96

\* SafetyConstraints.check_position_hold_time(position_id), called at hour t, with
\* position_start_times the dict _position_start_times in hours: the passed and the
\* severity of its SafetyConstraintResult. It returns a result and acts on nothing;
\* nothing in the program calls it.
check_position_hold_time(position_start_times, position_id, t) ==
    IF position_id \notin DOMAIN position_start_times
    THEN [passed |-> TRUE, severity |-> "info"]
    ELSE LET hold_time == t - position_start_times[position_id]
         IN  IF hold_time > max_position_hold_hours
             THEN [passed |-> FALSE, severity |-> "warning"]
             ELSE [passed |-> TRUE, severity |-> "info"]

\* Position(...) of core/types.py, opened at hour 0 around a price of 1000, by the
\* fields the strategy reads
LongPositions ==
    [id : {1}, side : {"LONG"}, entry_price : {R(1000)}, stop_loss : {R(999), R(1001)},
     take_profit_1 : {R(1001)}, take_profit_2 : {R(1002)}, entry_atr : {R(1)},
     opened_at : {0}, tp1_hit : BOOLEAN, highest_price : {NoPrice, R(1002)},
     lowest_price : {NoPrice}]

ShortPositions ==
    [id : {2}, side : {"SHORT"}, entry_price : {R(1000)}, stop_loss : {R(1001), R(999)},
     take_profit_1 : {R(999)}, take_profit_2 : {R(998)}, entry_atr : {R(1)},
     opened_at : {0}, tp1_hit : BOOLEAN, highest_price : {NoPrice},
     lowest_price : {NoPrice, R(998)}]

\* the lists a caller may hold: none, one position, or a long and a short that have
\* not reached their first take-profit
OpenPositionLists ==
    {<<>>} \cup {<<p>> : p \in LongPositions \cup ShortPositions}
        \cup {<<p, q>> :
                 p \in {x \in LongPositions : x.highest_price = NoPrice /\ ~x.tp1_hit},
                 q \in {x \in ShortPositions : x.lowest_price = NoPrice /\ ~x.tp1_hit}}

\* the hourly candles: none, or a rise
Feeds1h == {<<>>, <<Candle(100, 100, 100, 100), Candle(100, 150, 100, 150)>>}

\* the 5-minute candles: none, or a flat run at 1000 and at most one candle after it,
\* up to 1001 or down to 999
Feeds5m ==
    {<<>>} \cup {Repeat(Candle(1000, 1000, 1000, 1000), BaseLen) \o t :
                    t \in {<<>>, <<Candle(1000, 1001, 1000, 1001)>>,
                           <<Candle(1000, 1000, 999, 999)>>}}

NoStrategyResult == [called |-> FALSE]

StrategyIdle ==
    /\ open_positions = <<>>
    /\ hours = 0
    /\ strategy_result = NoStrategyResult

\* one call of on_candles on the positions held, with the ai_gate that
\* TradingOrchestrator.evaluate_strategy passes; nothing in the orchestrator writes
\* to a Position
OnCandles ==
    /\ \E ohlcv_1h \in Feeds1h, ohlcv_5m \in Feeds5m :
          strategy_result' =
              [called |-> TRUE, hours |-> hours, ohlcv_5m |-> ohlcv_5m,
               result |-> on_candles(ohlcv_1h, ohlcv_5m, open_positions, "OPEN", 2)]
    /\ UNCHANGED <<open_positions, hours>>

\* two days pass
StrategyClock ==
    /\ hours + 48 <= MaxHours
    /\ hours' = hours + 48
    /\ UNCHANGED <<open_positions, strategy_result>>

(***************************************************************************)
(* The PositionManager on its own, under any sequence of calls             *)
(***************************************************************************)
MaxOpened == 2

Prices == {R(98), R(100), R(102)}

NoCall == [op |-> "None", position_id |-> 0, price |-> NoPrice, ret |-> FALSE]

\* a call of open_position, at an entry price of 100
OpenPosition ==
    /\ \/ Len(position_manager.positions) < MaxOpened
       \/ get_position_count(position_manager) >= position_manager.max_positions
    /\ \E side \in {"long", "short"} :
          LET o == open_position(position_manager, symbol, side, R(100), R(1),
                                 IF side = "long" THEN R(96) ELSE R(104),
                                 IF side = "long" THEN R(104) ELSE R(96), now)
          IN  /\ position_manager' = o.self
              /\ pm_last' = [op |-> "open_position", position_id |-> o.ret.id,
                             price |-> R(100), ret |-> o.ret.id # 0]

\* a call of close_position, on any id, known or not
ClosePosition ==
    \E position_id \in 1..(Len(position_manager.positions) + 1), exit_price \in Prices :
        LET c == close_position(position_manager, position_id, exit_price, "MANUAL", now)
        IN  /\ position_manager' = c.self
            /\ pm_last' = [op |-> "close_position", position_id |-> position_id,
                           price |-> exit_price, ret |-> c.ret.id # 0]

\* a call of update_position_price, on any id, known or not
UpdatePositionPrice ==
    \E position_id \in 1..(Len(position_manager.positions) + 1), current_price \in Prices :
        /\ position_manager' =
               update_position_price(position_manager, position_id, current_price)
        /\ pm_last' = [op |-> "update_position_price", position_id |-> position_id,
                       price |-> current_price, ret |-> FALSE]

(***************************************************************************)
(* OHLCVBuffer (paid_trading_bot/data/ohlcv_buffer.py): a deque of candles *)
(* with a maxlen; the candles stand for themselves                         *)
(***************************************************************************)
MaxLen == 3
MaxAdded == 5
MaxExtend == 2
CandleNames == {"c1", "c2"}

\* no OHLCVBuffer constructed
NoBuffer == [maxlen |-> 0, candles |-> <<>>]

\* OHLCVBuffer(OHLCVBufferConfig(maxlen)): ValueError for a maxlen <= 0
OHLCVBuffer__init__(maxlen) ==
    IF maxlen <= 0 THEN [raises |-> "ValueError", self |-> NoBuffer]
    ELSE [raises |-> "None", self |-> [maxlen |-> maxlen, candles |-> <<>>]]

\* an append that refuses the candle when the deque is full
append_KeepsOldest(self, candle) ==
    IF Len(self.candles) = self.maxlen THEN self
    ELSE [self EXCEPT !.candles = Append(self.candles, candle)]

\* OHLCVBuffer.append(candle): deque(maxlen).append discards from the left when full
append(self, candle) ==
    IF Len(self.candles) = self.maxlen
    THEN [self EXCEPT !.candles = Append(Tail(self.candles), candle)]
    ELSE [self EXCEPT !.candles = Append(self.candles, candle)]

\* OHLCVBuffer.extend(candles): appends each candle in turn
RECURSIVE extend(_, _)
extend(self, list) ==
    IF list = <<>> THEN self
    ELSE extend([self EXCEPT !.candles = append(self, Head(list)).candles], Tail(list))

\* OHLCVBuffer.__len__()
OHLCVBuffer__len__(self) == Len(self.candles)

\* OHLCVBuffer.snapshot(): list(self._candles)
snapshot(self) == [i \in 1..Len(self.candles) |-> self.candles[i]]

\* OHLCVBuffer.latest(): None when empty, else self._candles[-1]
latest(self) ==
    IF Len(self.candles) = 0 THEN "None" ELSE self.candles[Len(self.candles)]

\* the lists of candles handed to extend
CandleLists == UNION {[1..n -> CandleNames] : n \in 0..MaxExtend}

BufferAppend ==
    \E candle \in CandleNames :
        /\ Len(buffer_added) < MaxAdded
        /\ ohlcv_buffer' = append(ohlcv_buffer, candle)
        /\ buffer_added' = Append(buffer_added, candle)

BufferExtend ==
    \E list \in CandleLists :
        /\ Len(buffer_added) + Len(list) <= MaxAdded
        /\ ohlcv_buffer' = extend(ohlcv_buffer, list)
        /\ buffer_added' = buffer_added \o list

(***************************************************************************)
(* EventBus (paid_trading_bot/core/events.py). A handler is known by what  *)
(* it does when called; emitted, the events handed to emit, is kept for    *)
(* the properties                                                          *)
(***************************************************************************)
MaxHandlers == 3
MaxEmitted == 1
EventTypes == {"CIRCUIT_BREAKER_TRIPPED", "ERROR_OCCURRED"}

\* quiet returns, failing raises an Exception, leaving unsubscribes itself from the
\* event's type, inviting subscribes quiet to the event's type
Handlers == {"quiet", "failing", "leaving", "inviting"}

NoEmission == [type |-> "None", snapshot |-> <<>>, calls |-> <<>>, raises |-> "None"]

\* EventBus(): an empty list of handlers for each EventType
EventBus__init__ ==
    [handlers |-> [t \in EventTypes |-> <<>>], emitted |-> <<>>, last |-> NoEmission]

\* EventBus.create_event(event_type, payload, source) at time t
create_event(event_type, payload, source, t) ==
    [type |-> event_type, timestamp |-> t, payload |-> payload, source |-> source]

\* EventBus.subscribe(event_type, handler)
subscribe(self, event_type, handler) ==
    [self EXCEPT !.handlers[event_type] = Append(@, handler)]

\* list.remove(handler): the list without the first occurrence of handler
RECURSIVE ListRemove(_, _)
ListRemove(list, handler) ==
    IF list = <<>> THEN list
    ELSE IF Head(list) = handler THEN Tail(list)
    ELSE <<Head(list)>> \o ListRemove(Tail(list), handler)

\* EventBus.unsubscribe(event_type, handler)
unsubscribe(self, event_type, handler) ==
    IF \E i \in 1..Len(self.handlers[event_type]) : self.handlers[event_type][i] = handler
    THEN [self EXCEPT !.handlers[event_type] = ListRemove(@, handler)]
    ELSE self

\* handler(event): [raises, self]
CallHandler(self, handler, event) ==
    IF handler = "failing" THEN [raises |-> "Exception", self |-> self]
    ELSE IF handler = "leaving"
    THEN [raises |-> "None", self |-> unsubscribe(self, event.type, handler)]
    ELSE IF handler = "inviting"
    THEN [raises |-> "None", self |-> subscribe(self, event.type, "quiet")]
    ELSE [raises |-> "None", self |-> self]

\* the loop of emit: the list iterator is at index i of the list as it is now;
\* an Exception of the handler is caught and passed over
RECURSIVE EmitLoop(_, _, _, _)
EmitLoop(self, event, i, calls) ==
    IF i > Len(self.handlers[event.type]) THEN [raises |-> "None", self |-> self, calls |-> calls]
    ELSE EmitLoop(CallHandler(self, self.handlers[event.type][i], event).self, event, i + 1,
                  Append(calls, self.handlers[event.type][i]))

\* EventBus.emit(event): [raises, self], self.last telling the handlers called
emit(self, event) ==
    LET done == EmitLoop(self, event, 1, <<>>)
    IN  [raises |-> done.raises,
         self |-> [done.self EXCEPT
                       !.emitted = Append(@, event),
                       !.last = [type |-> event.type,
                                 snapshot |-> self.handlers[event.type],
                                 calls |-> done.calls, raises |-> done.raises]]]

NoPayload == [reason |-> "None"]

\* the handlers subscribed, over all the types
Subscribed(self) ==
    Len(self.handlers["CIRCUIT_BREAKER_TRIPPED"]) + Len(self.handlers["ERROR_OCCURRED"])

Subscribe ==
    \E event_type \in EventTypes, handler \in Handlers :
        /\ Subscribed(event_bus) < MaxHandlers
        /\ event_bus' = subscribe(event_bus, event_type, handler)

Unsubscribe ==
    \E event_type \in EventTypes, handler \in Handlers :
        event_bus' = unsubscribe(event_bus, event_type, handler)

Emit ==
    \E event_type \in EventTypes :
        /\ Len(event_bus.emitted) < MaxEmitted
        /\ event_bus' = emit(event_bus, create_event(event_type, NoPayload, "unknown", now)).self

(***************************************************************************)
(* OrderManager (paid_trading_bot/execution/order_manager.py). The order   *)
(* function fn is known by what its successive calls do: return a value or *)
(* raise an Exception                                                      *)
(***************************************************************************)
MaxAttempts == 3

\* RetryPolicy(max_attempts, backoff_seconds); the default is RetryPolicy(3, 0.5)
RetryPolicy(max_attempts, backoff_seconds) ==
    [max_attempts |-> max_attempts, backoff_seconds |-> backoff_seconds]

RetryPolicies ==
    {RetryPolicy(m, b) : m \in (-1)..MaxAttempts, b \in {R(0), <<1, 2>>, R(1)}}

CallOutcomes ==
    { [raises |-> "None", returns |-> "filled"],
      [raises |-> "None", returns |-> "rejected"],
      [raises |-> "NetworkError", returns |-> "None"],
      [raises |-> "ExchangeError", returns |-> "None"] }

OrderFunctions == [1..MaxAttempts -> CallOutcomes]

NoOutcome == [calls |-> -1, sleeps |-> <<>>, returns |-> "None", raises |-> "None"]

\* a backoff that does not grow with the attempt
Backoff_Constant(policy, attempt) == policy.backoff_seconds

\* self._policy.backoff_seconds * attempt
Backoff(policy, attempt) == RMul(policy.backoff_seconds, R(attempt))

\* the while loop of with_retries, entered with attempt calls made
RECURSIVE RetryLoop(_, _, _, _, _)
RetryLoop(policy, fn, attempt, last_exc, sleeps) ==
    IF ~(attempt < policy.max_attempts)
    THEN [calls |-> attempt, sleeps |-> sleeps, returns |-> "None",
          raises |-> IF last_exc # "None" THEN last_exc ELSE "RuntimeError"]
    ELSE IF fn[attempt + 1].raises = "None"
    THEN [calls |-> attempt + 1, sleeps |-> sleeps,
          returns |-> fn[attempt + 1].returns, raises |-> "None"]
    ELSE IF attempt + 1 >= policy.max_attempts
    THEN [calls |-> attempt + 1, sleeps |-> sleeps, returns |-> "None",
          raises |-> fn[attempt + 1].raises]
    ELSE RetryLoop(policy, fn, attempt + 1, fn[attempt + 1].raises,
                   Append(sleeps, Backoff(policy, attempt + 1)))

\* OrderManager.with_retries(fn): the calls made, the sleeps, and what it returns
\* or raises
with_retries(policy, fn) == RetryLoop(policy, fn, 0, "None", <<>>)

NoRetry == [policy |-> RetryPolicy(0, R(0)), fn |-> <<>>, outcome |-> NoOutcome]

WithRetries ==
    /\ retry.outcome = NoOutcome
    /\ retry.fn # <<>>
    /\ retry' = [retry EXCEPT !.outcome = with_retries(retry.policy, retry.fn)]

(***************************************************************************)
(* The EmergencyStop called on its own (risk/emergency_stop.py), with      *)
(* EmergencyStopState.triggered_at                                         *)
(***************************************************************************)
MaxRecoveries == 2
TriggerReasons == {"operator", "drawdown"}
TriggeredBy == {"manual", "risk_engine"}
Passwords == {"EMERGENCY_RELEASE", "password", ""}

NoStopCall ==
    [op |-> "None", reason |-> "None", triggered_by |-> "None", password |-> "None",
     ret |-> FALSE, seq |-> 0]

\* a call of EmergencyStop.trigger(reason, triggered_by) at the time now
StopTrigger ==
    \E reason \in TriggerReasons, triggered_by \in TriggeredBy :
        /\ emergency_stop' = trigger(emergency_stop, reason, triggered_by).self
        /\ triggered_at' = IF trigger(emergency_stop, reason, triggered_by).ret
                           THEN now ELSE triggered_at
        /\ es_last' = [op |-> "trigger", reason |-> reason, triggered_by |-> triggered_by,
                       password |-> "None",
                       ret |-> trigger(emergency_stop, reason, triggered_by).ret,
                       seq |-> 1 - es_last.seq]

\* a call of EmergencyStop.release(password, released_by)
StopRelease ==
    \E password \in Passwords :
        /\ emergency_stop.recovery_attempts < MaxRecoveries
        /\ emergency_stop' = release(emergency_stop, password).self
        /\ triggered_at' = triggered_at
        /\ es_last' = [op |-> "release", reason |-> "None", triggered_by |-> "None",
                       password |-> password,
                       ret |-> release(emergency_stop, password).ret,
                       seq |-> 1 - es_last.seq]

\* time passes between the calls
StopClock == (AdvanceSlot \/ AdvanceDay) /\ UNCHANGED <<emergency_stop, triggered_at, es_last>>

(***************************************************************************)
(* The sizer and the validator on floats (risk/position_sizer.py,          *)
(* risk/validators.py): the same computations with each operation rounded  *)
(***************************************************************************)
\* calculate_position_size with its float operations rounded: the product of the risk
\* and the multiplier, the division by 100.0, the product with the balance and the
\* division by the stop distance
calculate_position_size_float(account_balance, risk_percent, entry_price, stop_loss_price, ai_risk_multiplier, hard_limits) ==
    IF account_balance <= 0 THEN R(0)
    ELSE Only({IF RLe(effective_risk_percent, R(0)) \/ stop_distance <= 0 THEN R(0)
               ELSE Only({IF RLt(position_size, R(0)) THEN R(0) ELSE position_size :
                             position_size \in {FDiv(FMul(R(account_balance),
                                                          FDiv(effective_risk_percent, R(100))),
                                                     R(stop_distance))}}) :
                  effective_risk_percent \in
                      {FMul(CapRiskPercent(risk_percent,
                                           IF hard_limits = NoLimits THEN DefaultLimits
                                           ELSE hard_limits),
                            ClampMultiplier(ai_risk_multiplier))},
                  stop_distance \in {Abs(entry_price - stop_loss_price)}})

\* calculate_trade_risk_percent with its float operations rounded; position_size is
\* a float
calculate_trade_risk_percent_float(position_size, entry_price, stop_loss, account_balance) ==
    IF account_balance <= 0 THEN R(0)
    ELSE Only({IF stop_distance <= 0 THEN R(0)
               ELSE FMul(FDiv(FMul(position_size, R(stop_distance)), R(account_balance)),
                         R(100)) :
                  stop_distance \in {Abs(entry_price - stop_loss)}})

\* validate_trade_request of a request whose position_size is a float
validate_trade_request_float(request, account_state, risk_limits) ==
    IF account_state.daily_pnl_percent <= -risk_limits.daily_loss_cap_percent
    THEN Rejected("DAILY_LOSS_CAP_HIT")
    ELSE IF account_state.current_drawdown_percent >= risk_limits.max_drawdown_percent
    THEN Rejected("MAX_DRAWDOWN_HIT")
    ELSE IF account_state.consecutive_losses >= risk_limits.max_consecutive_losses
    THEN Rejected("MAX_CONSECUTIVE_LOSSES_HIT")
    ELSE IF account_state.open_positions >= risk_limits.max_open_positions
    THEN Rejected("MAX_POSITIONS_REACHED")
    ELSE IF account_state.trades_today >= risk_limits.max_trades_per_day
    THEN Rejected("MAX_DAILY_TRADES_REACHED")
    ELSE IF RGt(calculate_trade_risk_percent_float(request.position_size,
                                                   request.entry_price, request.stop_loss,
                                                   account_state.balance),
                risk_limits.max_risk_per_trade_percent)
    THEN Rejected("RISK_PER_TRADE_EXCEEDED")
    ELSE [approved |-> TRUE, reason |-> "ALL_CHECKS_PASSED"]

\* the trades that are sized and then submitted: a positive balance, a stop on either
\* side of the entry
SizedInputs ==
    [account_balance : {1000, 1200, 1500},
     risk_percent : {Rat(1, 2), R(1), R(5)},
     entry_price : {100},
     stop_loss_price : {77, 94, 97, 99, 103},
     ai_risk_multiplier : {Rat(1, 2), R(1), R(2)},
     hard_limits : LimitsSet \cup {NoLimits}]

\* an account with the balance of the sizing, that meets every limit
AccountOf(in) ==
    [balance |-> in.account_balance, daily_pnl_percent |-> 0,
     current_drawdown_percent |-> 0, consecutive_losses |-> 0, open_positions |-> 0,
     trades_today |-> 0]

\* the TradeRequest of the sizing in and the size it gave
RequestOf(in, size) ==
    [entry_price |-> in.entry_price, stop_loss |-> in.stop_loss_price,
     position_size |-> size]

LimitsOf(in) == IF in.hard_limits = NoLimits THEN DefaultLimits ELSE in.hard_limits

\* a caller sizes a trade
SizeFloat ==
    /\ s_out = NoSize
    /\ s_out' = calculate_position_size_float(s_in.account_balance, s_in.risk_percent,
                                              s_in.entry_price, s_in.stop_loss_price,
                                              s_in.ai_risk_multiplier, s_in.hard_limits)
    /\ UNCHANGED <<s_in, v_in, v_out>>

\* and submits it with that size, under the same limits
SubmitSized ==
    /\ s_out # NoSize
    /\ v_out = NoResult
    /\ v_out' = validate_trade_request_float(RequestOf(s_in, s_out), AccountOf(s_in),
                                             LimitsOf(s_in))
    /\ UNCHANGED <<s_in, s_out, v_in>>

(***************************************************************************)
(* Parsing of the AI responses (ai/ai_client.py GeminiClient, and          *)
(* paid_trading_bot/ai_advisory/gemini_layer.py GeminiSupervisoryLayer).   *)
(* A response is known by whether the call raises, by what json.loads      *)
(* makes of its text, and by the words of the text                         *)
(***************************************************************************)
\* what json.loads gives on a text that is a JSON object: the entries read by the
\* parsers, "missing" for an absent key
JsonObjects ==
    [approved : BOOLEAN,
     recommendation : {"ALLOW", "REDUCE_RISK", "halt", "BUY", "missing"},
     regime : {"TRENDING", "RANGING"},
     confidence : {<<1, 2>>, <<9, 10>>, <<3, 2>>}]

NoJson == [approved |-> FALSE, recommendation |-> "missing", regime |-> "missing",
           confidence |-> R(0)]

\* the texts that are not JSON, by their words
PlainTexts == { <<"approved", "true">>, <<"true", "but", "false">>,
                <<"false", "not", "true">>, <<"sorry">> }

AIResponses ==
    { [raises |-> TRUE, valid |-> FALSE, json |-> NoJson, words |-> <<>>] } \cup
    { [raises |-> FALSE, valid |-> TRUE, json |-> j, words |-> <<>>] : j \in JsonObjects } \cup
    { [raises |-> FALSE, valid |-> FALSE, json |-> NoJson, words |-> w] : w \in PlainTexts }

\* str.upper() on the recommendations and regimes that occur
UpperWord(s) == IF s = "halt" THEN "HALT" ELSE s

\* the fail-safe AIAnalysisResult of GeminiClient
FailSafeResult(reasoning) ==
    [regime |-> "UNKNOWN", confidence |-> R(0), recommendation |-> "HALT",
     reasoning |-> reasoning, risk_level |-> "HIGH"]

\* GeminiClient._parse_response(text)
_parse_response(response) ==
    IF ~response.valid THEN FailSafeResult("Parse error")
    ELSE [regime |-> IF response.json.regime = "missing" THEN "UNKNOWN"
                     ELSE UpperWord(response.json.regime),
          confidence |-> RMax(R(0), RMin(R(1), response.json.confidence)),
          recommendation |->
              IF response.json.recommendation = "missing" THEN "HALT"
              ELSE IF UpperWord(response.json.recommendation)
                          \notin {"ALLOW", "REDUCE_RISK", "HALT"} THEN "HALT"
              ELSE UpperWord(response.json.recommendation),
          reasoning |-> "model", risk_level |-> "HIGH"]

\* GeminiClient.analyze(payload) of an enabled client, on the response of the model
GeminiClient_analyze(response) ==
    IF response.raises THEN FailSafeResult("AI analysis error")
    ELSE _parse_response(response)

\* the index of the last "true" among the words, or 0
LastTrue(words) ==
    IF \E i \in 1..Len(words) : words[i] = "true"
    THEN CHOOSE i \in 1..Len(words) :
             words[i] = "true" /\ \A j \in (i + 1)..Len(words) : words[j] # "true"
    ELSE 0

\* GeminiSupervisoryLayer._parse_ai_response(response): the dict returned
_parse_ai_response(response) ==
    IF response.valid
    THEN [approved |-> response.json.approved,
          recommendation |-> IF response.json.recommendation = "missing" THEN "hold"
                             ELSE response.json.recommendation]
    ELSE [approved |-> /\ LastTrue(response.words) # 0
                       /\ \A j \in (LastTrue(response.words) + 1)..Len(response.words) :
                              response.words[j] # "false",
          recommendation |-> "hold"]

\* GeminiSupervisoryLayer.review_entry_signal(...): approved and recommendation of
\* the AISignalReview
review_entry_signal(response) ==
    IF response.raises THEN [approved |-> FALSE, recommendation |-> "hold"]
    ELSE _parse_ai_response(response)

NoAnalysis == [regime |-> "None", confidence |-> R(0), recommendation |-> "None",
               reasoning |-> "None", risk_level |-> "None"]
NoSignalReview == [approved |-> FALSE, recommendation |-> "None"]
NoReview ==
    [response |-> [raises |-> FALSE, valid |-> FALSE, json |-> NoJson, words |-> <<>>],
     analysis |-> NoAnalysis, gated |-> FALSE, allowed |-> FALSE,
     signal_review |-> NoSignalReview]

\* the GeminiClient is asked and answers with the response
ClientAnalyze ==
    /\ review.analysis = NoAnalysis
    /\ review' = [review EXCEPT !.analysis = GeminiClient_analyze(review.response)]

\* check_entry_conditions hands the analysis to the gatekeeper
Gatekeeper ==
    /\ review.analysis # NoAnalysis
    /\ ~review.gated
    /\ review' = [review EXCEPT !.gated = TRUE,
                                !.allowed = allow_trading(review.analysis)]

\* the GeminiSupervisoryLayer is asked and answers with the response
ReviewEntrySignal ==
    /\ review.signal_review = NoSignalReview
    /\ review' = [review EXCEPT !.signal_review = review_entry_signal(review.response)]

\* no TradingOrchestrator
NoBuffers == [h1 |-> NoBuffer, m5 |-> NoBuffer]

(***************************************************************************)
(* TradingOrchestrator (paid_trading_bot/engine/orchestrator.py): the two  *)
(* buffers and fetch_data                                                  *)
(***************************************************************************)
\* the maxlen of _buffer_1h and of _buffer_5m, which are also the limits of the two
\* fetches of fetch_data (200 and 100 in the program, fewer here), and the last
\* timestamp the exchange reaches
Limit1h == 4
Limit5m == 3
MaxStamp == 6

\* the Candle of a timestamp; its prices play no part in the buffers
CandleAt(ts) == [timestamp |-> ts]

\* DataIngestion.fetch_candles(symbol, timeframe, limit) when the last candle of the
\* exchange is the one of timestamp last: the limit most recent candles, oldest
\* first, or all of them when the exchange has fewer
fetch_candles(limit, last) ==
    [i \in 1..(IF last < limit THEN last ELSE limit) |->
        CandleAt((IF last < limit THEN 0 ELSE last - limit) + i)]

\* the timestamps the exchange can have reached at a fetch into a buffer: not before
\* the last candle the buffer holds
StampsAfter(buffer) ==
    {last \in 1..MaxStamp :
        Len(buffer.candles) = 0 \/ last >= latest(buffer).timestamp}

\* TradingOrchestrator.__init__: the two buffers
TradingOrchestrator__init__ ==
    [h1 |-> OHLCVBuffer__init__(Limit1h).self, m5 |-> OHLCVBuffer__init__(Limit5m).self]

\* TradingOrchestrator.fetch_data(symbol), the exchange being at last_1h and last_5m
fetch_data(self, last_1h, last_5m) ==
    [h1 |-> extend(self.h1, fetch_candles(Limit1h, last_1h)),
     m5 |-> extend(self.m5, fetch_candles(Limit5m, last_5m))]

\* TradingOrchestrator.run_cycle(symbol, account_state): fetch_data, then the
\* snapshots of the two buffers go to the strategy, whose result is dropped
RunCycle ==
    \E last_1h \in StampsAfter(buffers.h1), last_5m \in StampsAfter(buffers.m5) :
        buffers' = fetch_data(buffers, last_1h, last_5m)

\* no AI response parsed, no TradingOrchestrator constructed
ExtrasIdle ==
    /\ review = NoReview
    /\ buffers = NoBuffers

(***************************************************************************)
(* The services, not yet constructed or called                             *)
(***************************************************************************)
ServicesIdle ==
    /\ ohlcv_buffer = NoBuffer
    /\ buffer_added = <<>>
    /\ event_bus = EventBus__init__
    /\ retry = NoRetry
    /\ triggered_at = NoTime
    /\ es_last = NoStopCall
    /\ ExtrasIdle

\* the components specified on their own, not yet called
ComponentsIdle ==
    AdvisoryIdle /\ EntryIdle /\ StrategyIdle /\ pm_last = NoCall /\ ServicesIdle
    /\ running = FALSE

(***************************************************************************)
(* Specifications of the components                                        *)
(***************************************************************************)
StartOfTime == [day |-> 0, slot |-> 0]

InitBreaker ==
    /\ now = StartOfTime /\ BreakerInit /\ ValidatorIdle /\ SizerIdle /\ RiskIdle /\ BotIdle
    /\ ComponentsIdle
NextBreaker ==
    \/ CheckAndTrip /\ UNCHANGED <<validatorVars, sizerVars, riskVars, botVars,
                    componentVars>>
    \/ ManualReset /\ UNCHANGED <<validatorVars, sizerVars, riskVars, botVars,
                    componentVars>>
    \/ BreakerTick /\ UNCHANGED <<validatorVars, sizerVars, riskVars, botVars,
                    componentVars>>
SpecBreaker == InitBreaker /\ [][NextBreaker]_vars

InitValidator ==
    /\ now = StartOfTime /\ BreakerInit /\ SizerIdle /\ RiskIdle /\ BotIdle
    /\ ComponentsIdle
    /\ v_in \in ValidatorInputs
    /\ v_out = NoResult
NextValidator == Validate /\ UNCHANGED <<now, breakerVars, sizerVars, riskVars, botVars,
                    componentVars>>
SpecValidator == InitValidator /\ [][NextValidator]_vars

InitSizer ==
    /\ now = StartOfTime /\ BreakerInit /\ ValidatorIdle /\ RiskIdle /\ BotIdle
    /\ ComponentsIdle
    /\ s_in \in SizerInputs
    /\ s_out = NoSize
NextSizer == Size /\ UNCHANGED <<now, breakerVars, validatorVars, riskVars, botVars,
                    componentVars>>
SpecSizer == InitSizer /\ [][NextSizer]_vars

InitRisk ==
    /\ now = StartOfTime /\ BreakerInit /\ ValidatorIdle /\ SizerIdle /\ BotIdle
    /\ ComponentsIdle
    /\ config \in EnvRiskConfigs
    /\ risk_engine = RiskEngine__init__(config)
    /\ re_last = [op |-> "init", ret |-> FALSE]
    /\ day_losses = NoLosses
NextRisk ==
    \/ CanOpenTrade /\ UNCHANGED <<breakerVars, validatorVars, sizerVars, botVars,
                    componentVars>>
    \/ RegisterTradeOpen /\ UNCHANGED <<breakerVars, validatorVars, sizerVars, botVars,
                    componentVars>>
    \/ RegisterTradeClose /\ UNCHANGED <<breakerVars, validatorVars, sizerVars, botVars,
                    componentVars>>
    \/ UpdateBalance /\ UNCHANGED <<breakerVars, validatorVars, sizerVars, botVars,
                    componentVars>>
    \/ RiskManualReset /\ UNCHANGED <<breakerVars, validatorVars, sizerVars, botVars,
                    componentVars>>
    \/ RiskTick /\ UNCHANGED <<breakerVars, validatorVars, sizerVars, botVars,
                    componentVars>>
SpecRisk == InitRisk /\ [][NextRisk]_vars

InitRiskDays ==
    /\ now = StartOfTime /\ BreakerInit /\ ValidatorIdle /\ SizerIdle /\ BotIdle
    /\ ComponentsIdle
    /\ config \in DayRiskConfigs
    /\ risk_engine = RiskEngine__init__(config)
    /\ re_last = [op |-> "init", ret |-> FALSE]
    /\ day_losses = NoLosses
NextRiskDays ==
    \/ CanOpenTrade /\ UNCHANGED <<breakerVars, validatorVars, sizerVars, botVars,
                    componentVars>>
    \/ RegisterTradeOpen /\ UNCHANGED <<breakerVars, validatorVars, sizerVars, botVars,
                    componentVars>>
    \/ DayClose /\ UNCHANGED <<breakerVars, validatorVars, sizerVars, botVars,
                    componentVars>>
    \/ DayBalance /\ UNCHANGED <<breakerVars, validatorVars, sizerVars, botVars,
                    componentVars>>
    \/ DayPasses /\ UNCHANGED <<breakerVars, validatorVars, sizerVars, botVars,
                    componentVars>>
SpecRiskDays == InitRiskDays /\ [][NextRiskDays]_vars

Init ==
    /\ now = StartOfTime /\ BreakerInit /\ ValidatorIdle /\ SizerIdle
    /\ ComponentsIdle
    /\ config \in BotRiskConfigs
    /\ risk_engine = RiskEngine__init__(config)
    /\ re_last = [op |-> "init", ret |-> FALSE]
    /\ day_losses = NoLosses
    /\ paper_trading \in BOOLEAN
    /\ emergency_stop = EmergencyStop__init__
    /\ position_manager = PositionManager__init__
    /\ trade_state = TradeState__init__
    /\ candles = NoCandles
    /\ last_update = NoTime
    /\ tick = NoTick
Next ==
    \/ RunIteration /\ UNCHANGED <<breakerVars, validatorVars, sizerVars, re_last, day_losses,
                    componentVars>>
    \/ Trigger /\ UNCHANGED <<breakerVars, validatorVars, sizerVars, re_last, day_losses,
                    componentVars>>
    \/ BotClock /\ UNCHANGED <<breakerVars, validatorVars, sizerVars, re_last, day_losses,
                    componentVars>>
Spec == Init /\ [][Next]_vars

\* the bot trading live on any RiskConfig the environment can supply
InitEnv ==
    /\ now = StartOfTime /\ BreakerInit /\ ValidatorIdle /\ SizerIdle
    /\ ComponentsIdle
    /\ config \in EnvRiskConfigs
    /\ risk_engine = RiskEngine__init__(config)
    /\ re_last = [op |-> "init", ret |-> FALSE]
    /\ day_losses = NoLosses
    /\ paper_trading = FALSE
    /\ emergency_stop = EmergencyStop__init__
    /\ position_manager = PositionManager__init__
    /\ trade_state = TradeState__init__
    /\ candles = NoCandles
    /\ last_update = NoTime
    /\ tick = NoTick
SpecEnv == InitEnv /\ [][Next]_vars

\* the bot once run() is started, until it is stopped
InitRun ==
    /\ now = StartOfTime /\ BreakerInit /\ ValidatorIdle /\ SizerIdle
    /\ AdvisoryIdle /\ EntryIdle /\ StrategyIdle /\ pm_last = NoCall /\ ServicesIdle
    /\ running = TRUE
    /\ config \in BotRiskConfigs
    /\ risk_engine = RiskEngine__init__(config)
    /\ re_last = [op |-> "init", ret |-> FALSE]
    /\ day_losses = NoLosses
    /\ paper_trading \in BOOLEAN
    /\ emergency_stop = EmergencyStop__init__
    /\ position_manager = PositionManager__init__
    /\ trade_state = TradeState__init__
    /\ candles = NoCandles
    /\ last_update = NoTime
    /\ tick = NoTick
NextRun ==
    \/ running /\ RunIteration
               /\ UNCHANGED <<breakerVars, validatorVars, sizerVars, re_last, day_losses,
                              componentVars>>
    \/ Trigger /\ UNCHANGED <<breakerVars, validatorVars, sizerVars, re_last, day_losses,
                              componentVars>>
    \/ BotClock /\ UNCHANGED <<breakerVars, validatorVars, sizerVars, re_last, day_losses,
                               componentVars>>
    \/ Stop /\ UNCHANGED <<breakerVars, validatorVars, sizerVars, re_last, day_losses,
                           advisoryVars, entryVars, strategyVars, pm_last, ohlcv_buffer,
                           buffer_added, event_bus, retry, triggered_at, es_last,
                           extraVars>>
SpecRun == InitRun /\ [][NextRun]_vars

ComponentsRest == ValidatorIdle /\ SizerIdle /\ RiskIdle /\ BotIdle

InitAdvisory ==
    /\ now = StartOfTime /\ BreakerInit /\ ComponentsRest
    /\ adv_in \in AdvisoryInputs
    /\ adv_agents = NoAgents
    /\ adv_out = NoAdvisory
    /\ EntryIdle /\ StrategyIdle /\ pm_last = NoCall /\ ServicesIdle /\ running = FALSE
NextAdvisory ==
    Analyze /\ UNCHANGED <<now, breakerVars, validatorVars, sizerVars, riskVars, botVars,
                           entryVars, strategyVars, pm_last, serviceVars>>
SpecAdvisory == InitAdvisory /\ [][NextAdvisory]_vars

InitEntry ==
    /\ now = StartOfTime /\ BreakerInit /\ ComponentsRest
    /\ e_in \in EntryInputs
    /\ e_out = NoEntry
    /\ AdvisoryIdle /\ StrategyIdle /\ pm_last = NoCall /\ ServicesIdle /\ running = FALSE
NextEntry ==
    EvaluateEntry /\ UNCHANGED <<now, breakerVars, validatorVars, sizerVars, riskVars,
                                 botVars, advisoryVars, strategyVars, pm_last, serviceVars>>
SpecEntry == InitEntry /\ [][NextEntry]_vars

InitStrategy ==
    /\ now = StartOfTime /\ BreakerInit /\ ComponentsRest
    /\ open_positions \in OpenPositionLists
    /\ hours = 0
    /\ strategy_result = NoStrategyResult
    /\ AdvisoryIdle /\ EntryIdle /\ pm_last = NoCall /\ ServicesIdle /\ running = FALSE
NextStrategy ==
    \/ OnCandles /\ UNCHANGED <<now, breakerVars, validatorVars, sizerVars, riskVars,
                                botVars, advisoryVars, entryVars, pm_last, serviceVars>>
    \/ StrategyClock /\ UNCHANGED <<now, breakerVars, validatorVars, sizerVars, riskVars,
                                    botVars, advisoryVars, entryVars, pm_last, serviceVars>>
SpecStrategy == InitStrategy /\ [][NextStrategy]_vars

PositionsRest ==
    UNCHANGED <<now, breakerVars, validatorVars, sizerVars, riskVars, paper_trading,
                emergency_stop, trade_state, candles, last_update, tick, advisoryVars,
                entryVars, strategyVars, serviceVars>>

InitPositions ==
    /\ now = StartOfTime /\ BreakerInit /\ ComponentsRest /\ ComponentsIdle
NextPositions ==
    \/ OpenPosition /\ PositionsRest
    \/ ClosePosition /\ PositionsRest
    \/ UpdatePositionPrice /\ PositionsRest
SpecPositions == InitPositions /\ [][NextPositions]_vars

BufferRest ==
    UNCHANGED <<now, breakerVars, validatorVars, sizerVars, riskVars, botVars, advisoryVars,
                entryVars, strategyVars, pm_last, event_bus, retry, triggered_at, es_last,
                running, extraVars>>

InitBuffer ==
    /\ now = StartOfTime /\ BreakerInit /\ ComponentsRest
    /\ AdvisoryIdle /\ EntryIdle /\ StrategyIdle /\ pm_last = NoCall
    /\ ohlcv_buffer \in {OHLCVBuffer__init__(maxlen).self : maxlen \in 0..MaxLen} \ {NoBuffer}
    /\ buffer_added = <<>>
    /\ event_bus = EventBus__init__ /\ retry = NoRetry /\ triggered_at = NoTime /\ es_last = NoStopCall
    /\ running = FALSE /\ ExtrasIdle
NextBuffer ==
    \/ BufferAppend /\ BufferRest
    \/ BufferExtend /\ BufferRest
SpecBuffer == InitBuffer /\ [][NextBuffer]_vars

BusRest ==
    UNCHANGED <<now, breakerVars, validatorVars, sizerVars, riskVars, botVars, advisoryVars,
                entryVars, strategyVars, pm_last, ohlcv_buffer, buffer_added, retry,
                triggered_at, es_last, running, extraVars>>

InitBus ==
    /\ now = StartOfTime /\ BreakerInit /\ ComponentsRest /\ ComponentsIdle
NextBus ==
    \/ Subscribe /\ BusRest
    \/ Unsubscribe /\ BusRest
    \/ Emit /\ BusRest
SpecBus == InitBus /\ [][NextBus]_vars

InitRetry ==
    /\ now = StartOfTime /\ BreakerInit /\ ComponentsRest
    /\ AdvisoryIdle /\ EntryIdle /\ StrategyIdle /\ pm_last = NoCall
    /\ ohlcv_buffer = NoBuffer /\ buffer_added = <<>> /\ event_bus = EventBus__init__
    /\ triggered_at = NoTime /\ es_last = NoStopCall /\ running = FALSE /\ ExtrasIdle
    /\ retry \in [policy : RetryPolicies, fn : OrderFunctions, outcome : {NoOutcome}]
NextRetry ==
    WithRetries /\ UNCHANGED <<now, breakerVars, validatorVars, sizerVars, riskVars, botVars,
                               advisoryVars, entryVars, strategyVars, pm_last, ohlcv_buffer,
                               buffer_added, event_bus, triggered_at, es_last, running,
                               extraVars>>
SpecRetry == InitRetry /\ [][NextRetry]_vars

\* a CircuitBreaker tripped by check_and_trip on a drawdown of 10%
BreakerTripped ==
    /\ is_tripped = TRUE
    /\ trip_reason = [code |-> "EMERGENCY_DRAWDOWN", detail |-> "10"]
    /\ trip_timestamp = StartOfTime
    /\ cb_last = [op |-> "check_and_trip",
                  state |-> [HealthyState EXCEPT !.drawdown_percent = 10],
                  token |-> "", ret |-> TRUE, seq |-> 1]

StopRest ==
    UNCHANGED <<breakerVars, validatorVars, sizerVars, riskVars, paper_trading,
                position_manager, trade_state, candles, last_update, tick, advisoryVars,
                entryVars, strategyVars, pm_last, ohlcv_buffer, buffer_added, event_bus,
                retry, running, extraVars>>

InitStop ==
    /\ now = StartOfTime /\ (BreakerInit \/ BreakerTripped) /\ ComponentsRest
    /\ ComponentsIdle
NextStop ==
    \/ StopTrigger /\ UNCHANGED now /\ StopRest
    \/ StopRelease /\ UNCHANGED now /\ StopRest
    \/ StopClock /\ StopRest
SpecStop == InitStop /\ [][NextStop]_vars

\* everything but review
ReviewRest ==
    UNCHANGED <<now, breakerVars, validatorVars, sizerVars, riskVars, botVars, advisoryVars,
                entryVars, strategyVars, pm_last, ohlcv_buffer, buffer_added, event_bus,
                retry, triggered_at, es_last, running, buffers>>

IdleButExtras ==
    /\ now = StartOfTime /\ BreakerInit /\ ComponentsRest
    /\ AdvisoryIdle /\ EntryIdle /\ StrategyIdle /\ pm_last = NoCall
    /\ ohlcv_buffer = NoBuffer /\ buffer_added = <<>> /\ event_bus = EventBus__init__
    /\ retry = NoRetry /\ triggered_at = NoTime /\ es_last = NoStopCall /\ running = FALSE

InitReview ==
    /\ IdleButExtras
    /\ buffers = NoBuffers
    /\ review \in [response : AIResponses, analysis : {NoAnalysis}, gated : {FALSE},
                    allowed : {FALSE}, signal_review : {NoSignalReview}]
NextReview ==
    \/ ClientAnalyze /\ ReviewRest
    \/ Gatekeeper /\ ReviewRest
    \/ ReviewEntrySignal /\ ReviewRest
SpecReview == InitReview /\ [][NextReview]_vars

InitSized ==
    /\ now = StartOfTime /\ BreakerInit /\ RiskIdle /\ BotIdle /\ ComponentsIdle
    /\ s_in \in SizedInputs
    /\ s_out = NoSize
    /\ v_in = [request |-> [entry_price |-> 100, stop_loss |-> 99, position_size |-> 10],
               account_state |-> [balance |-> 1000, daily_pnl_percent |-> -2,
                                  current_drawdown_percent |-> 9, consecutive_losses |-> 4,
                                  open_positions |-> 1, trades_today |-> 5],
               risk_limits |-> DefaultLimits]
    /\ v_out = NoResult
NextSized ==
    \/ SizeFloat /\ UNCHANGED <<now, breakerVars, riskVars, botVars, componentVars>>
    \/ SubmitSized /\ UNCHANGED <<now, breakerVars, riskVars, botVars, componentVars>>
SpecSized == InitSized /\ [][NextSized]_vars

\* a TradingOrchestrator running its cycles
InitFetch ==
    /\ IdleButExtras
    /\ review = NoReview
    /\ buffers = TradingOrchestrator__init__
NextFetch ==
    RunCycle /\ UNCHANGED <<now, breakerVars, validatorVars, sizerVars, riskVars, botVars,
                            advisoryVars, entryVars, strategyVars, pm_last, ohlcv_buffer,
                            buffer_added, event_bus, retry, triggered_at, es_last, running,
                            review>>
SpecFetch == InitFetch /\ [][NextFetch]_vars


(***************************************************************************)
(* Properties of validate_trade_request                                    *)
(***************************************************************************)
\* trade_risk_percent = position_size * |entry_price - stop_loss| / balance * 100 is a
\* number and is <= max_risk_per_trade_percent
RiskWithinCap(request, account_state, risk_limits) ==
    /\ account_state.balance # 0
    /\ RLe(Rat(request.position_size * Abs(request.entry_price - request.stop_loss) * 100,
               account_state.balance),
           risk_limits.max_risk_per_trade_percent)

\* C2: an approved request satisfies every limit: daily_pnl_percent > -daily_loss_cap,
\* drawdown < max, consecutive_losses < max, open_positions < max, trades_today < max,
\* and position_size * |entry - stop| / balance * 100 <= max_risk_per_trade_percent.
C2_ApprovedWithinLimits ==
    v_out.approved =>
        LET a == v_in.account_state
            l == v_in.risk_limits
        IN  /\ a.daily_pnl_percent > -l.daily_loss_cap_percent
            /\ a.current_drawdown_percent < l.max_drawdown_percent
            /\ a.consecutive_losses < l.max_consecutive_losses
            /\ a.open_positions < l.max_open_positions
            /\ a.trades_today < l.max_trades_per_day
            /\ RiskWithinCap(v_in.request, a, l)

\* the check that fails first, in the order daily loss, drawdown, consecutive losses,
\* open positions, daily trades, risk per trade
FirstFailure(request, a, l) ==
    IF a.daily_pnl_percent <= -l.daily_loss_cap_percent THEN "DAILY_LOSS_CAP_HIT"
    ELSE IF a.current_drawdown_percent >= l.max_drawdown_percent THEN "MAX_DRAWDOWN_HIT"
    ELSE IF a.consecutive_losses >= l.max_consecutive_losses THEN "MAX_CONSECUTIVE_LOSSES_HIT"
    ELSE IF a.open_positions >= l.max_open_positions THEN "MAX_POSITIONS_REACHED"
    ELSE IF a.trades_today >= l.max_trades_per_day THEN "MAX_DAILY_TRADES_REACHED"
    ELSE IF RGt(calculate_trade_risk_percent(request.position_size, request.entry_price,
                                             request.stop_loss, a.balance),
                l.max_risk_per_trade_percent) THEN "RISK_PER_TRADE_EXCEEDED"
    ELSE "ALL_CHECKS_PASSED"

\* C3: the result carries the reason code of the first check that fails, in the fixed
\* order, and is approved with ALL_CHECKS_PASSED exactly when no check fails.
C3_FirstFailureReported ==
    v_out # NoResult =>
        LET first == FirstFailure(v_in.request, v_in.account_state, v_in.risk_limits)
        IN  /\ v_out.reason = first
            /\ v_out.approved <=> (first = "ALL_CHECKS_PASSED")
            /\ v_out.approved <=> (v_out.reason = "ALL_CHECKS_PASSED")

\* drawdown, open positions, daily trades and risk per trade all breached: the
\* drawdown is the one reported
C3_Witness ==
    /\ v_out = Rejected("MAX_DRAWDOWN_HIT")
    /\ v_in.account_state.open_positions >= v_in.risk_limits.max_open_positions
    /\ v_in.account_state.trades_today >= v_in.risk_limits.max_trades_per_day
    /\ v_in.account_state.balance > 0
    /\ v_in.request.position_size = 11
    /\ v_in.request.stop_loss = 99

(***************************************************************************)
(* Properties of calculate_position_size                                   *)
(***************************************************************************)
EffectiveLimits(in) == IF in.hard_limits = NoLimits THEN DefaultLimits ELSE in.hard_limits

C8_DailyLossLockout ==
    (re_last.op = "can_open_trade" /\ day_losses.day = now.day
        /\ RGe(day_losses.sum, risk_engine.daily_loss_limit))
      => ~re_last.ret

(***************************************************************************)
(* Properties of the main loop                                             *)
(***************************************************************************)
BuySubmitted(obs) == \E i \in 1..Len(obs.orders) : obs.orders[i].side = "buy"
AllTrue(returns) == Len(returns) > 0 /\ \A i \in 1..Len(returns) : returns[i]

\* C6: an iteration that starts while the emergency stop is active, or while the
\* emergency flag of the risk engine is set, does nothing: it fetches no market data,
\* submits no order, opens and closes no position, and leaves the RiskEngine, the
\* PositionManager, the TradeState and the candles as they were.
C6_HaltedTickIsNoOp ==
    [][((emergency_stop.is_active \/ risk_engine.state.emergency_stop) /\ RunIteration)
          => /\ UNCHANGED <<risk_engine, position_manager, trade_state, candles, last_update>>
             /\ ~tick'.fetched
             /\ tick'.orders = <<>>]_vars

\* an iteration was skipped under the operator's emergency stop while a position was open
C6_Witness ==
    /\ tick.halted
    /\ emergency_stop.is_active
    /\ ~risk_engine.state.emergency_stop
    /\ get_position_count(position_manager) = 1
    /\ trade_state.last_run # NoTime

\* C7: whenever a position is opened, and whenever the last iteration submitted a buy,
\* every call of can_open_trade in that iteration returned true, the AI gatekeeper
\* allow_trading returned true, and the number of open positions at the entry check
\* was below max_open_positions.
C7_RiskGateAuthority ==
    [][(\/ Len(position_manager'.positions) > Len(position_manager.positions)
        \/ BuySubmitted(tick'))
          => /\ AllTrue(tick'.can_open)
             /\ AllTrue(tick'.allow)
             /\ tick'.count \in 0..(config.max_open_positions - 1)]_vars

\* the last iteration submitted a buy and opened the one open position
C7_Witness ==
    /\ BuySubmitted(tick)
    /\ tick.can_open = <<TRUE, TRUE>>
    /\ get_position_count(position_manager) = 1
    /\ trade_state.last_run = now

(***************************************************************************)
(* Properties of the advisory layer                                        *)
(***************************************************************************)
\* C11: analyze combines the three agents so that a sentinel status of CRITICAL
\* forces the recommendation HALT with risk multiplier 0 and tradeable false,
\* whatever the governor recommended; otherwise the recommendation, the risk
\* multiplier and the cooldown are the governor's, and tradeable is true exactly
\* when the regime is tradeable and the governor recommends TRADE.
C11_SentinelOverride ==
    adv_out # NoAdvisory =>
        LET regime == adv_agents.regime_output
            governor == adv_agents.governor_output
            sentinel == adv_agents.sentinel_output
        IN  IF sentinel.status = "CRITICAL"
            THEN /\ adv_out.recommendation = "HALT"
                 /\ adv_out.risk_multiplier = R(0)
                 /\ ~adv_out.tradeable
            ELSE /\ adv_out.recommendation = governor.recommendation
                 /\ adv_out.risk_multiplier = governor.risk_multiplier
                 /\ adv_out.cooldown_minutes = governor.cooldown_minutes
                 /\ adv_out.tradeable =
                        (regime.tradeable /\ governor.recommendation = "TRADE")

\* the sentinel was CRITICAL while the governor recommended TRADE at full size
C11_Witness ==
    /\ adv_out # NoAdvisory
    /\ adv_agents.sentinel_output.status = "CRITICAL"
    /\ adv_agents.governor_output.recommendation = "TRADE"
    /\ adv_agents.governor_output.risk_multiplier = R(1)
    /\ adv_out.recommendation = "HALT"

\* C12: the risk multiplier analyze returns is at least 0 and at most 1.
C12_RiskMultiplierRange ==
    adv_out # NoAdvisory =>
        /\ RGe(adv_out.risk_multiplier, R(0))
        /\ RLe(adv_out.risk_multiplier, R(1))

\* an analysis that passed the governor's reduced multiplier on
C12_Witness ==
    /\ adv_out # NoAdvisory
    /\ adv_agents.sentinel_output.status # "CRITICAL"
    /\ adv_out.recommendation = "TRADE"
    /\ RGt(adv_out.risk_multiplier, R(0))
    /\ RLt(adv_out.risk_multiplier, R(1))

\* the decision tree of the governor, in its stated order: the condition of each
\* branch and its outcome
GovernorTree(data) ==
    <<[condition |-> data.regime = "CHOPPY",
       recommendation |-> "HALT", risk_multiplier |-> R(0), cooldown_minutes |-> 0],
      [condition |-> RLe(data.daily_pnl_percent, R(-2)),
       recommendation |-> "HALT", risk_multiplier |-> R(0), cooldown_minutes |-> 0],
      [condition |-> data.trades_today >= data.max_trades_per_day,
       recommendation |-> "HALT", risk_multiplier |-> R(0), cooldown_minutes |-> 0],
      [condition |-> data.consecutive_losses >= 3,
       recommendation |-> "COOLDOWN", risk_multiplier |-> <<1, 2>>, cooldown_minutes |-> 30],
      [condition |-> data.consecutive_losses >= 2,
       recommendation |-> "TRADE", risk_multiplier |-> <<3, 4>>, cooldown_minutes |-> 0],
      [condition |-> data.regime = "HIGH_VOLATILITY",
       recommendation |-> "TRADE", risk_multiplier |-> <<1, 2>>, cooldown_minutes |-> 0],
      [condition |-> TRUE,
       recommendation |-> "TRADE", risk_multiplier |-> R(1), cooldown_minutes |-> 0]>>

\* the first branch of the tree whose condition holds
FirstBranch(tree) ==
    tree[CHOOSE i \in 1..Len(tree) :
             tree[i].condition /\ \A j \in 1..(i - 1) : ~tree[j].condition]

\* C13: the governor decides by the first matching branch of: regime CHOPPY -> HALT;
\* daily PnL <= -2.0 -> HALT; trades today >= the daily maximum -> HALT; 3 or more
\* consecutive losses -> COOLDOWN for 30 minutes at multiplier 0.5; 2 or more
\* consecutive losses -> TRADE at 0.75; regime HIGH_VOLATILITY -> TRADE at 0.5;
\* otherwise TRADE at 1.0. Every HALT carries the multiplier 0.
C13_GovernorDecisionTree ==
    adv_out # NoAdvisory =>
        LET governor == adv_agents.governor_output
            branch == FirstBranch(GovernorTree(adv_in.governor_input))
        IN  /\ governor.recommendation = branch.recommendation
            /\ governor.risk_multiplier = branch.risk_multiplier
            /\ governor.cooldown_minutes = branch.cooldown_minutes
            /\ governor.recommendation = "HALT" => governor.risk_multiplier = R(0)

\* three consecutive losses in a volatile regime: the cooldown came before the
\* reduced size
C13_Witness ==
    /\ adv_out # NoAdvisory
    /\ adv_in.governor_input.regime = "HIGH_VOLATILITY"
    /\ adv_in.governor_input.consecutive_losses = 3
    /\ adv_agents.governor_output.recommendation = "COOLDOWN"
    /\ adv_agents.governor_output.cooldown_minutes = 30

(***************************************************************************)
(* Properties of evaluate_entry                                            *)
(***************************************************************************)
\* C14: evaluate_entry returns no signal, whatever the candles, when the AI gate is
\* not OPEN, or the trend bias is NEUTRAL, or current_positions >= max_positions;
\* the three gates are tested in that order, each before any indicator is computed:
\* the return taken is that of the first gate that is closed.
C14_EntryGates ==
    e_out # NoEntry =>
        IF e_in.ai_gate # "OPEN"
        THEN e_out.ret = NoSignal /\ e_out.at = "ai_gate"
        ELSE IF e_in.trend_bias = "NEUTRAL"
        THEN e_out.ret = NoSignal /\ e_out.at = "trend_bias"
        ELSE IF e_in.current_positions >= e_in.max_positions
        THEN e_out.ret = NoSignal /\ e_out.at = "max_positions"
        ELSE e_out.at \notin {"ai_gate", "trend_bias", "max_positions"}

\* the gate was in COOLDOWN on candles and a trend that give a long entry when it is
\* OPEN, with room for a position
C14_Witness ==
    /\ e_out.at = "ai_gate"
    /\ e_in.ai_gate = "COOLDOWN"
    /\ e_in.trend_bias = "BULLISH"
    /\ e_in.current_positions < e_in.max_positions
    /\ evaluate_entry(e_in.ohlcv_5m, "BULLISH", "OPEN", 1, 2).ret # NoSignal

\* the Candle invariant: low <= min(open, close) <= max(open, close) <= high
CandleInvariant(c) ==
    /\ RLe(c.low, RMin(c.open, c.close))
    /\ RLe(RMax(c.open, c.close), c.high)

\* C15: on candles that all satisfy the Candle invariant, every EntrySignal returned
\* has its levels strictly ordered (LONG: stop_loss < entry_price < take_profit_1 <
\* take_profit_2; SHORT: the mirror image), a LONG signal is only returned under a
\* BULLISH trend and a SHORT signal only under a BEARISH trend.
C15_LevelsOrdered ==
    (/\ e_out.ret # NoSignal
     /\ \A i \in 1..Len(e_in.ohlcv_5m) : CandleInvariant(e_in.ohlcv_5m[i]))
        => LET sig == e_out.ret
           IN  /\ sig.side = "LONG" =>
                     /\ e_in.trend_bias = "BULLISH"
                     /\ RLt(sig.stop_loss, sig.entry_price)
                     /\ RLt(sig.entry_price, sig.take_profit_1)
                     /\ RLt(sig.take_profit_1, sig.take_profit_2)
               /\ sig.side = "SHORT" =>
                     /\ e_in.trend_bias = "BEARISH"
                     /\ RLt(sig.take_profit_2, sig.take_profit_1)
                     /\ RLt(sig.take_profit_1, sig.entry_price)
                     /\ RLt(sig.entry_price, sig.stop_loss)

(***************************************************************************)
(* Properties of the exit evaluation                                       *)
(***************************************************************************)
\* the exit signals of the last evaluation that are for the position p
SignalsFor(p) ==
    SelectSeq(strategy_result.result.exit_signals, LAMBDA sig : sig.position_id = p.id)

\* the triggers of the exit table, at the price of the evaluation
StopLossTrigger(p, price) ==
    IF p.side = "LONG" THEN RLe(price, p.stop_loss) ELSE RGe(price, p.stop_loss)

TakeProfit1Trigger(p, price) ==
    /\ ~p.tp1_hit
    /\ IF p.side = "LONG" THEN RGe(price, p.take_profit_1)
       ELSE RLe(price, p.take_profit_1)

TrailingStopTrigger(p, price) ==
    /\ p.tp1_hit
    /\ IF p.side = "LONG"
       THEN p.highest_price # NoPrice /\ RLe(price, RSub(p.highest_price, p.entry_atr))
       ELSE p.lowest_price # NoPrice /\ RGe(price, RAdd(p.lowest_price, p.entry_atr))

\* the exit the priority STOP_LOSS > TAKE_PROFIT_1 > TRAILING_STOP chooses, and its size
ExpectedExit(p, price) ==
    IF StopLossTrigger(p, price) THEN [exit_type |-> "STOP_LOSS", size_percent |-> R(100)]
    ELSE IF TakeProfit1Trigger(p, price)
    THEN [exit_type |-> "TAKE_PROFIT_1", size_percent |-> R(50)]
    ELSE IF TrailingStopTrigger(p, price)
    THEN [exit_type |-> "TRAILING_STOP", size_percent |-> R(100)]
    ELSE [exit_type |-> "None", size_percent |-> R(0)]

\* C16: an exit evaluation emits at most one signal per position; when several
\* triggers hold at the price, the one emitted is the first of STOP_LOSS,
\* TAKE_PROFIT_1, TRAILING_STOP, for LONG and for SHORT positions; STOP_LOSS and
\* TRAILING_STOP signals are for 100% of the position, TAKE_PROFIT_1 signals for
\* 50%, and a TRAILING_STOP signal is only emitted for a position with tp1_hit.
C16_OneExitByPriority ==
    strategy_result.called =>
        \A i \in 1..Len(open_positions) :
            LET p == open_positions[i]
                sigs == SignalsFor(p)
                expected == ExpectedExit(p, strategy_result.result.current_price)
            IN  /\ Len(sigs) <= 1
                /\ Len(sigs) = 0 <=> expected.exit_type = "None"
                /\ Len(sigs) = 1 =>
                      /\ sigs[1].exit_type = expected.exit_type
                      /\ sigs[1].size_percent = expected.size_percent
                      /\ sigs[1].exit_type = "TRAILING_STOP" => p.tp1_hit

\* the stop and the first take-profit of a position were both reached at the price
\* of the evaluation, and the stop was the exit emitted
C16_Witness ==
    /\ strategy_result.called
    /\ \E i \in 1..Len(open_positions) :
          LET p == open_positions[i]
              price == strategy_result.result.current_price
          IN  /\ StopLossTrigger(p, price)
              /\ TakeProfit1Trigger(p, price)
              /\ price # R(0)
              /\ Len(SignalsFor(p)) = 1
              /\ SignalsFor(p)[1].exit_type = "STOP_LOSS"

\* C17: when a TAKE_PROFIT_1 exit is emitted for a position, handling it sets the
\* position's tp1_hit and moves its stop_loss to its entry_price, so that the
\* position is in its post-TP1 stage from then on.
C17_TakeProfit1Handled ==
    strategy_result.called =>
        \A i \in 1..Len(open_positions) :
            LET p == open_positions[i]
                sigs == SignalsFor(p)
            IN  (Len(sigs) > 0 /\ sigs[1].exit_type = "TAKE_PROFIT_1")
                    => p.tp1_hit /\ p.stop_loss = p.entry_price

\* C19: for every open position held for more than max_position_hold_hours (the
\* hold-time check of the safety constraints fails), the exit evaluation emits an
\* exit: TIME_LIMIT for 100% of the position, unless a trigger of higher priority
\* gave the exit.
C19_TimeLimitExit ==
    strategy_result.called =>
        \A i \in 1..Len(open_positions) :
            LET p == open_positions[i]
                sigs == SignalsFor(p)
                start_times == [id \in {p.id} |-> p.opened_at]
            IN  ~check_position_hold_time(start_times, p.id, strategy_result.hours).passed
                    => /\ Len(sigs) = 1
                       /\ sigs[1].exit_type
                              \in {"STOP_LOSS", "TAKE_PROFIT_1", "TRAILING_STOP", "TIME_LIMIT"}
                       /\ ExpectedExit(p, strategy_result.result.current_price).exit_type
                              = "None" => /\ sigs[1].exit_type = "TIME_LIMIT"
                                          /\ sigs[1].size_percent = R(100)

(***************************************************************************)
(* Properties of the PositionManager                                       *)
(***************************************************************************)
\* the last call was close_position or update_position_price on an id that was
\* unknown or closed in the positions old
OnClosedOrUnknown(old) ==
    /\ pm_last'.op \in {"close_position", "update_position_price"}
    /\ \/ pm_last'.position_id \notin 1..Len(old)
       \/ old[pm_last'.position_id].status = "closed"

\* C18: under any sequence of open, price-update and close calls a position only
\* moves forward: no position disappears, a position becomes closed only by a
\* close_position call on it that returns it, a closed position never changes again
\* (its exit_price, exit_reason and pnl_percent included), and close_position or
\* update_position_price on a closed or unknown position returns None and changes
\* nothing.
C18_ClosedIsTerminal ==
    [][LET old == position_manager.positions
           new == position_manager'.positions
       IN  /\ Len(new) >= Len(old)
           /\ \A i \in 1..Len(old) :
                 /\ old[i].status = "closed" => new[i] = old[i]
                 /\ (old[i].status = "open" /\ new[i].status = "closed")
                       => /\ pm_last'.op = "close_position"
                          /\ pm_last'.position_id = i
                          /\ pm_last'.ret
           /\ OnClosedOrUnknown(old)
                 => ~pm_last'.ret /\ position_manager' = position_manager]_vars

\* a second close of a closed position, at a price other than its exit price, was
\* refused
C18_Witness ==
    /\ pm_last.op = "close_position"
    /\ ~pm_last.ret
    /\ pm_last.position_id \in 1..Len(position_manager.positions)
    /\ position_manager.positions[pm_last.position_id].status = "closed"
    /\ position_manager.positions[pm_last.position_id].exit_price # pm_last.price

\* C20: highest_price never decreases and lowest_price never increases; for every
\* position lowest_price <= entry_price <= highest_price; and after an
\* update_position_price on an open position, lowest_price <= current_price <=
\* highest_price.
C20_ExtremesMonotone ==
    [][LET old == position_manager.positions
           new == position_manager'.positions
       IN  \A i \in 1..Len(new) :
               /\ RLe(new[i].lowest_price, new[i].entry_price)
               /\ RLe(new[i].entry_price, new[i].highest_price)
               /\ i <= Len(old) =>
                     /\ RGe(new[i].highest_price, old[i].highest_price)
                     /\ RLe(new[i].lowest_price, old[i].lowest_price)
               /\ (/\ pm_last'.op = "update_position_price"
                   /\ pm_last'.position_id = i
                   /\ i <= Len(old)
                   /\ old[i].status = "open")
                     => /\ RLe(new[i].lowest_price, pm_last'.price)
                        /\ RLe(pm_last'.price, new[i].highest_price)]_vars

\* an open position that has been below and above its entry price was updated at a
\* price between its extremes
C20_Witness ==
    /\ pm_last.op = "update_position_price"
    /\ pm_last.position_id \in 1..Len(position_manager.positions)
    /\ LET p == position_manager.positions[pm_last.position_id]
       IN  /\ p.status = "open"
           /\ RLt(p.lowest_price, p.entry_price)
           /\ RGt(p.highest_price, p.entry_price)
           /\ pm_last.price = p.entry_price

(***************************************************************************)
(* Properties of the order of decisions within a tick                      *)
(***************************************************************************)
\* the positions that on_candles leaves open: those it gives no exit for the whole
\* position
LeftOpen(positions, exit_signals) ==
    Len(positions) -
        Cardinality({i \in 1..Len(exit_signals) : exit_signals[i].size_percent = R(100)})

\* C21: within a tick the exits are evaluated before the entry, so the entry decision
\* sees the position count after the tick's exits: the entry signal on_candles
\* returns is the one evaluate_entry gives on the number of positions left open by
\* the exit signals it returns.
C21_ExitsBeforeEntry ==
    strategy_result.called =>
        strategy_result.result.entry_signal =
            evaluate_entry(strategy_result.ohlcv_5m, strategy_result.result.trend, "OPEN",
                           LeftOpen(open_positions, strategy_result.result.exit_signals),
                           2).ret

(***************************************************************************)
(* Properties of the RiskEngine over the days                              *)
(***************************************************************************)
\* C22: registering a trade-open and then a trade-close with pnl = 0 leaves
\* consecutive_losses as it was: register_trade_open does not change it, and the
\* register_trade_close(pnl_percent=0) that follows a register_trade_open does not.
C22_BreakEvenKeepsStreak ==
    [][/\ re_last'.op = "register_trade_open" =>
              risk_engine'.state.consecutive_losses = risk_engine.state.consecutive_losses
       /\ (/\ re_last.op = "register_trade_open"
           /\ re_last'.op = "register_trade_close"
           /\ risk_engine'.trade_history[Len(risk_engine'.trade_history)].pnl = R(0))
              => risk_engine'.state.consecutive_losses =
                     risk_engine.state.consecutive_losses]_vars

\* the RiskEngine is asked on a UTC date other than that of last_trade_time
OnNewDay(self, t) ==
    self.state.last_trade_time # NoTime /\ t.day # self.state.last_trade_time.day

\* none of the limits that last over the days stops the engine
NoStandingLimit(self) ==
    /\ ~self.state.emergency_stop
    /\ RLt(self.state.max_drawdown, self.max_drawdown_limit)
    /\ self.state.consecutive_losses < self.max_consecutive_losses

\* C23: the first can_open_trade or register_trade_open on a new UTC date resets
\* total_trades_today, daily_loss and daily_loss_percent to 0 and leaves
\* consecutive_losses, max_drawdown and the emergency flag alone; the can_open_trade
\* of an engine that no standing limit stops answers as it does on the reset
\* counters, so that the lockout of the day before is over.
C23_DailyReset ==
    [][(/\ OnNewDay(risk_engine, now)
        /\ NoStandingLimit(risk_engine)
        /\ re_last'.op \in {"can_open_trade", "register_trade_open"})
          => /\ risk_engine'.state.daily_loss = R(0)
             /\ risk_engine'.state.daily_loss_percent = R(0)
             /\ risk_engine'.state.total_trades_today =
                    IF re_last'.op = "register_trade_open" THEN 1 ELSE 0
             /\ risk_engine'.state.consecutive_losses =
                    risk_engine.state.consecutive_losses
             /\ risk_engine'.state.max_drawdown = risk_engine.state.max_drawdown
             /\ ~risk_engine'.state.emergency_stop
             /\ re_last'.op = "can_open_trade" =>
                    re_last'.ret =
                        can_open_trade(_reset_daily_if_needed(risk_engine, now), now).ret]_vars

(***************************************************************************)
(* Properties of the limits loaded from the environment                    *)
(***************************************************************************)
\* what a position loses at its stop
RiskAtStop(p) == RMul(p.amount, RSub(p.entry_price, p.stop_loss))

\* ABSOLUTE_MAX_RISK_PER_TRADE percent of the balance the bot sizes on
MaxRiskAtStop == RDiv(RMul(R(initial_balance), R(ABSOLUTE_MAX_RISK_PER_TRADE)), R(100))

\* C24: whatever the environment supplies, the limits the bot uses are at most the
\* absolute caps: the daily loss cap and the max drawdown that gate its trades, and
\* the risk per trade that sizes its positions, so that no position it opens loses
\* more than ABSOLUTE_MAX_RISK_PER_TRADE percent of the balance at its stop.
C24_LimitsCapped ==
    /\ RLe(risk_engine.max_risk_pct, R(ABSOLUTE_MAX_RISK_PER_TRADE))
    /\ RLe(risk_engine.daily_loss_limit, R(ABSOLUTE_MAX_DAILY_LOSS))
    /\ RLe(risk_engine.max_drawdown_limit, R(ABSOLUTE_MAX_DRAWDOWN))
    /\ \A i \in 1..Len(position_manager.positions) :
           RLe(RiskAtStop(position_manager.positions[i]), MaxRiskAtStop)


(***************************************************************************)
(* Properties of the OHLCVBuffer                                           *)
(***************************************************************************)
\* the last n elements of a sequence
LastOf(seq, n) == SubSeq(seq, Len(seq) - n + 1, Len(seq))

SmallerOf(a, b) == IF a < b THEN a ELSE b

\* C25: after N candles added by any mix of append and extend to a buffer of
\* maxlen > 0, the length is min(N, maxlen), snapshot() is the last min(N, maxlen)
\* candles added in the order they were added, and latest() is the last candle
\* added, or None when nothing was added
C25_BufferKeepsLast ==
    ohlcv_buffer # NoBuffer =>
        /\ ohlcv_buffer.maxlen > 0
        /\ OHLCVBuffer__len__(ohlcv_buffer)
               = SmallerOf(Len(buffer_added), ohlcv_buffer.maxlen)
        /\ snapshot(ohlcv_buffer)
               = LastOf(buffer_added, SmallerOf(Len(buffer_added), ohlcv_buffer.maxlen))
        /\ latest(ohlcv_buffer)
               = IF buffer_added = <<>> THEN "None" ELSE buffer_added[Len(buffer_added)]

\* more candles than maxlen were added, and the ones kept differ from the ones dropped
C25_Overflowed ==
    /\ ohlcv_buffer.maxlen = 2
    /\ buffer_added = <<"c1", "c1", "c2", "c1", "c2">>
    /\ snapshot(ohlcv_buffer) = <<"c1", "c2">>


(***************************************************************************)
(* Properties of the EventBus                                              *)
(***************************************************************************)
\* C28: emit calls every handler that was subscribed to the event's type when the
\* emission started, once each and in the order of subscription, whatever the
\* handlers raise, subscribe or unsubscribe meanwhile, and emit never raises
C28_EmitStableSnapshot ==
    event_bus.last # NoEmission =>
        /\ event_bus.last.calls = event_bus.last.snapshot
        /\ event_bus.last.raises = "None"


(***************************************************************************)
(* Properties of the CircuitBreaker and the EventBus together              *)
(***************************************************************************)
\* the event emitted last is a CIRCUIT_BREAKER_TRIPPED with this timestamp and reason
LastEmittedIs(self, timestamp, reason) ==
    /\ self.emitted # <<>>
    /\ self.emitted[Len(self.emitted)].type = "CIRCUIT_BREAKER_TRIPPED"
    /\ self.emitted[Len(self.emitted)].timestamp = timestamp
    /\ self.emitted[Len(self.emitted)].payload.reason = reason

\* C26: every step of the breaker from untripped to tripped emits one
\* CIRCUIT_BREAKER_TRIPPED event carrying the trip timestamp and the trip reason,
\* and no other step of the breaker emits an event
C26_TripEmitsEvent ==
    [][IF ~is_tripped /\ is_tripped'
       THEN /\ Len(event_bus'.emitted) = Len(event_bus.emitted) + 1
            /\ LastEmittedIs(event_bus', trip_timestamp', trip_reason')
       ELSE cb_last' # cb_last => event_bus'.emitted = event_bus.emitted]_vars


(***************************************************************************)
(* Properties of the shutdown of the bot                                   *)
(***************************************************************************)
\* the position of this id was closed by the shutdown, and the RiskEngine and the
\* TradeState were told
DrainedAtShutdown(id) ==
    /\ position_manager'.positions[id].status = "closed"
    /\ position_manager'.positions[id].exit_reason = "EMERGENCY_SHUTDOWN"
    /\ \E i \in 1..Len(trade_state'.trades) :
           /\ i > Len(trade_state.trades)
           /\ trade_state'.trades[i].trade_id = id
           /\ trade_state'.trades[i].exit_reason = "EMERGENCY_SHUTDOWN"
    /\ Len(risk_engine'.trade_history) > Len(risk_engine.trade_history)

\* C27: shutdown closes every open position, with the reason EMERGENCY_SHUTDOWN, and
\* registers the close, so that no position is open afterwards, when the
\* EmergencyStop is active or the emergency flag of the RiskEngine is set; otherwise
\* it closes no position
C27_ShutdownDrains ==
    [][(running /\ ~running') =>
          IF emergency_stop.is_active \/ risk_engine.state.emergency_stop
          THEN /\ get_position_count(position_manager') = 0
               /\ \A id \in 1..Len(position_manager.positions) :
                      IsOpen(position_manager.positions[id]) => DrainedAtShutdown(id)
               /\ \A id \in 1..Len(position_manager.positions) :
                      ~IsOpen(position_manager.positions[id])
                          => position_manager'.positions[id] = position_manager.positions[id]
          ELSE position_manager' = position_manager]_vars

\* the bot was stopped with the EmergencyStop active and a position open, which
\* the shutdown closed
C27_DrainedAtStop ==
    /\ ~running
    /\ emergency_stop.is_active
    /\ get_position_count(position_manager) = 0
    /\ \E id \in 1..Len(position_manager.positions) :
           /\ position_manager.positions[id].status = "closed"
           /\ position_manager.positions[id].exit_reason = "EMERGENCY_SHUTDOWN"


(***************************************************************************)
(* Properties of the OrderManager                                          *)
(***************************************************************************)
\* the calls of fn that with_retries may make
Allowed(policy) == 1..policy.max_attempts

\* the first call of fn among the allowed ones that returns, or 0
FirstSuccess(policy, fn) ==
    IF \E k \in Allowed(policy) : fn[k].raises = "None"
    THEN CHOOSE k \in Allowed(policy) :
             /\ fn[k].raises = "None"
             /\ \A j \in 1..(k - 1) : fn[j].raises # "None"
    ELSE 0

\* what C29 says of one call of with_retries
RetriesAsSpecified(policy, fn, outcome) ==
    /\ outcome.calls >= 0
    /\ policy.max_attempts >= 0 => outcome.calls <= policy.max_attempts
    /\ policy.max_attempts < 0 => outcome.calls = 0
    /\ FirstSuccess(policy, fn) # 0 =>
           /\ outcome.calls = FirstSuccess(policy, fn)
           /\ outcome.returns = fn[FirstSuccess(policy, fn)].returns
           /\ outcome.raises = "None"
    /\ outcome.sleeps = [i \in 1..(outcome.calls - 1) |-> RMul(policy.backoff_seconds, R(i))]
    /\ (FirstSuccess(policy, fn) = 0 /\ policy.max_attempts >= 1) =>
           /\ outcome.calls = policy.max_attempts
           /\ outcome.returns = "None"
           /\ outcome.raises = fn[policy.max_attempts].raises
    /\ policy.max_attempts <= 0 => outcome.raises = "RuntimeError"

\* C29: with_retries calls the order function at most max_attempts times, returns
\* the result of the first call that succeeds and calls no more, sleeps
\* backoff_seconds * attempt after each failed attempt but the last, raises the
\* exception of the last attempt after max_attempts failures, and ends for every
\* max_attempts and every pattern of failures
C29_RetriesBounded ==
    retry.fn # <<>> =>
        /\ RetriesAsSpecified(retry.policy, retry.fn, with_retries(retry.policy, retry.fn))
        /\ retry.outcome # NoOutcome => retry.outcome = with_retries(retry.policy, retry.fn)

\* the default policy, an order function that fails twice and then succeeds
C29_ThirdAttemptSucceeds ==
    /\ retry.policy = RetryPolicy(3, <<1, 2>>)
    /\ retry.fn[1].raises = "NetworkError"
    /\ retry.fn[2].raises = "ExchangeError"
    /\ retry.outcome.returns = "filled"
    /\ retry.outcome.calls = 3
    /\ retry.outcome.sleeps = << <<1, 2>>, <<1, 1>> >>


(***************************************************************************)
(* Properties of the EmergencyStop as a kill switch                        *)
(***************************************************************************)
\* C30: trigger returns true and activates the stop with the reason given only on
\* an inactive stop, and on an active stop returns false and leaves reason,
\* triggered_by and triggered_at as they were; release returns true and deactivates
\* the stop only when it is active and the password is right, and otherwise returns
\* false and changes nothing; neither reads or changes the circuit breaker
C30_KillSwitch ==
    [][es_last'.seq # es_last.seq =>
          /\ es_last'.op = "trigger" =>
                 /\ es_last'.ret = ~emergency_stop.is_active
                 /\ IF emergency_stop.is_active
                    THEN emergency_stop' = emergency_stop /\ triggered_at' = triggered_at
                    ELSE /\ emergency_stop'.is_active
                         /\ emergency_stop'.reason = es_last'.reason
                         /\ emergency_stop'.triggered_by = es_last'.triggered_by
                         /\ triggered_at' = now
          /\ es_last'.op = "release" =>
                 /\ es_last'.ret = (emergency_stop.is_active
                                       /\ es_last'.password = "EMERGENCY_RELEASE")
                 /\ IF es_last'.ret
                    THEN ~emergency_stop'.is_active
                    ELSE emergency_stop' = emergency_stop /\ triggered_at' = triggered_at
          /\ UNCHANGED breakerVars]_vars

\* the stop, triggered while the breaker was not tripped, was triggered again later
\* for another reason, and kept the first
C30_SecondTriggerRefused ==
    /\ ~is_tripped
    /\ es_last.op = "trigger"
    /\ ~es_last.ret
    /\ emergency_stop.is_active
    /\ emergency_stop.reason # es_last.reason
    /\ triggered_at # now


(***************************************************************************)
(* Properties of the parsing of the AI responses                           *)
(***************************************************************************)
\* the advisory call failed: it raised, or its text is not the JSON expected, or
\* its recommendation is none of the values allowed
AdvisoryFailed(response) ==
    \/ response.raises
    \/ ~response.valid
    \/ UpperWord(response.json.recommendation) \notin {"ALLOW", "REDUCE_RISK", "HALT"}

\* C31: when the advisory call raises, or its response cannot be parsed as the JSON
\* expected, or its recommendation is not an allowed value, the verdict is HALT and
\* not approved: the GeminiClient answers HALT, which the gatekeeper refuses, and
\* the GeminiSupervisoryLayer answers not approved
C31_FailuresHalt ==
    AdvisoryFailed(review.response) =>
        /\ review.analysis # NoAnalysis =>
               /\ review.analysis.recommendation = "HALT"
               /\ ~review.allowed
        /\ review.signal_review # NoSignalReview => ~review.signal_review.approved


\* C32: the gatekeeper allows trading only when the regime is TRENDING, the
\* confidence is at or above the configured threshold and the recommendation is
\* ALLOW, the verdict of a disabled AI excepted
C32_GatekeeperRules ==
    (review.gated /\ review.allowed) =>
        \/ /\ review.analysis.regime = "TRENDING"
           /\ RGe(review.analysis.confidence, regime_confidence_threshold)
           /\ review.analysis.recommendation = "ALLOW"
        \/ /\ review.analysis.confidence = R(1)
           /\ review.analysis.reasoning = AIDisabledReasoning


(***************************************************************************)
(* Properties of the cap of the PositionManager                            *)
(***************************************************************************)
\* C33: under any calls of open_position and close_position the number of open
\* positions never exceeds max_positions: open_position at the cap returns None and
\* adds no position, and a close frees one slot
C33_OpenWithinCap ==
    [][/\ get_position_count(position_manager') <= position_manager'.max_positions
       /\ (pm_last'.op = "open_position"
              /\ get_position_count(position_manager) >= position_manager.max_positions)
            => ~pm_last'.ret /\ position_manager' = position_manager
       /\ (pm_last'.op = "open_position"
              /\ get_position_count(position_manager) < position_manager.max_positions)
            => /\ pm_last'.ret
               /\ get_position_count(position_manager')
                      = get_position_count(position_manager) + 1
       /\ pm_last'.op = "close_position"
            => get_position_count(position_manager')
                   = get_position_count(position_manager) - (IF pm_last'.ret THEN 1 ELSE 0)
      ]_vars

\* open_position was refused at the cap
C33_RefusedAtCap ==
    /\ pm_last.op = "open_position"
    /\ ~pm_last.ret
    /\ get_position_count(position_manager) = position_manager.max_positions


(***************************************************************************)
(* Properties of the ownership of the positions                            *)
(***************************************************************************)
\* what the operations of the PositionManager can make of a position: leave it,
\* move its highest_price or lowest_price to a price, or close it
ByPositionManager(before, after) ==
    \/ after = before
    \/ /\ before.status = "open"
       /\ after.status = "open"
       /\ after = [before EXCEPT !.highest_price = after.highest_price,
                                 !.lowest_price = after.lowest_price]
    \/ /\ before.status = "open"
       /\ after.status = "closed"
       /\ after.stop_loss = before.stop_loss
       /\ after.take_profit = before.take_profit
       /\ after.entry_price = before.entry_price
       /\ after.amount = before.amount

\* C34: the positions are changed by the PositionManager only: over a tick every
\* position the manager held is as the manager's own operations (price update,
\* close) can make it, its stop_loss included, and the evaluation of the exits
\* changes no field of it
C34_PositionsOwned ==
    [][\A id \in 1..Len(position_manager.positions) :
           ByPositionManager(position_manager.positions[id],
                             position_manager'.positions[id])]_vars


(***************************************************************************)
(* Properties of the sizer together with the validator                     *)
(***************************************************************************)
\* C35: the size that calculate_position_size returns for a positive balance,
\* submitted as the position_size of a TradeRequest with the same entry, stop, balance
\* and limits, is never rejected by validate_trade_request with
\* RISK_PER_TRADE_EXCEEDED.
C35_SizerValidatorAgree ==
    (s_in.account_balance > 0 /\ s_out # NoSize /\ v_out # NoResult)
        => v_out.reason # "RISK_PER_TRADE_EXCEEDED"


\* C36: validate_trade_request never approves a request whose monetary risk,
\* position_size * |entry_price - stop_loss|, exceeds max_risk_per_trade_percent
\* percent of the balance of the account, a balance of zero or below included.
C36_ApprovedRiskWithinLimit ==
    (v_out # NoResult /\ v_out.approved)
        => RLe(R(v_in.request.position_size
                 * Abs(v_in.request.entry_price - v_in.request.stop_loss) * 100),
               RMul(v_in.risk_limits.max_risk_per_trade_percent,
                    R(v_in.account_state.balance)))


(***************************************************************************)
(* Properties of the count of the trades of the day                        *)
(***************************************************************************)
\* C37: each position that execute_entry opens increases total_trades_today of the
\* RiskEngine by exactly one, in paper mode and in live mode alike: after an
\* iteration that opened a position the count is one above the count of the day
\* before it.
C37_OneTradePerOpen ==
    [][Len(position_manager'.positions) = Len(position_manager.positions) + 1
           => risk_engine'.state.total_trades_today
                  = _reset_daily_if_needed(risk_engine, now).state.total_trades_today + 1]_vars


(***************************************************************************)
(* Properties of the orders and the positions of the bot                   *)
(***************************************************************************)
\* an iteration submitted a buy order that was filled and counted by the RiskEngine
BuyFilled ==
    /\ risk_engine' # risk_engine
    /\ \E i \in 1..Len(tick'.orders) : tick'.orders[i].side = "buy"
    /\ risk_engine'.state.total_trades_today
           > _reset_daily_if_needed(risk_engine, now).state.total_trades_today

\* C38: every buy order that execute_entry submits and that is filled gives an open
\* position in the PositionManager in the same iteration, whatever max_open_positions
\* is configured: no order is filled and counted without a position recorded for it.
C38_FilledOrderRecorded ==
    [][BuyFilled =>
           /\ Len(position_manager'.positions) = Len(position_manager.positions) + 1
           /\ IsOpen(position_manager'.positions[Len(position_manager'.positions)])]_vars

\* an order filled under a max_open_positions that is not the cap of the
\* PositionManager, after an earlier position was closed
C38_FilledUnderOtherCap ==
    /\ config.max_open_positions # position_manager.max_positions
    /\ Len(position_manager.positions) = 2
    /\ IsOpen(position_manager.positions[2])
    /\ \E i \in 1..Len(tick.orders) : tick.orders[i].side = "buy"


\* C39: execute_exit marks a position closed, registers the close of the trade with
\* the RiskEngine and appends the TradeRecord only if the sell order succeeded: an
\* iteration whose sell order failed leaves every open position open and records no
\* close and no trade.
C39_ClosedOnlyWhenSold ==
    [][(\E i \in 1..Len(tick'.sold) : ~tick'.sold[i])
           => /\ \A id \in 1..Len(position_manager.positions) :
                     IsOpen(position_manager.positions[id])
                         => IsOpen(position_manager'.positions[id])
              /\ risk_engine'.trade_history = risk_engine.trade_history
              /\ trade_state'.trades = trade_state.trades]_vars


(***************************************************************************)
(* Properties of the buffers of the TradingOrchestrator                    *)
(***************************************************************************)
\* the timestamps of the candles of a buffer increase strictly
StrictlyIncreasing(buffer) ==
    \A i \in 1..(Len(buffer.candles) - 1) :
        buffer.candles[i].timestamp < buffer.candles[i + 1].timestamp

\* C40: after any sequence of fetch_data cycles the 1h buffer and the 5m buffer each
\* hold candles of strictly increasing timestamps, none twice, also when a fetch
\* returns fewer candles than the maxlen of the buffer or overlaps the fetch before.
C40_BuffersIncrease ==
    StrictlyIncreasing(buffers.h1) /\ StrictlyIncreasing(buffers.m5)

====
